---- MODULE Spec2Model ----
(***************************************************************************)
(* Intermud3 client for CircleMUD/tbaMUD: the session engine.              *)
(*                                                                         *)
(* Two threads share the global i3_client structure: the network driver    *)
(* thread (i3_client_thread) and the foreground game thread, which         *)
(* submits commands, drains events, queries the state, forces a reconnect  *)
(* through the 'i3 reconnect' command and finally calls i3_shutdown.       *)
(* A step of the model is one access to shared memory (or one critical     *)
(* section of a queue mutex); the position of each thread in its code is   *)
(* pc[t].                                                                  *)
(***************************************************************************)
EXTENDS Integers, Sequences, FiniteSets, TLC

(***************************************************************************)
(* Bounds of the model.                                                    *)
(***************************************************************************)
\* capacity shared by both queues (i3_client->max_queue_size)
MaxQueueSize == 2
\* commands the foreground thread submits in one run
MaxCmds == 1
\* events the dispatcher builds in one run
MaxEvents == 1
\* the same two, for the runs that exercise the queues (SpecQ)
QMaxCmds == 3
QMaxEvents == 3
\* file descriptors the process may hold open for gateway sockets
MaxFd == 2
\* the runs that exercise the dispatcher (SpecD): events its lines produce,
\* lines whose dispatch is recorded, and the values up to which the error
\* count and the count of received messages are followed
DMaxEvents == 1
DMaxLines == 1
DMaxErrors == 3
DMaxReceived == 1
\* lines whose dispatch is recorded in the runs that follow the path of each
\* line (SpecP)
PMaxLines == 2
\* the runs that follow the framing of the stream (SpecF): lines of the stream
\* that are followed, and lines one recv() returns at most
FMaxLines == 3
FMaxBatch == 2
\* commands the foreground thread submits in the runs that follow the
\* feature toggles (SpecC)
CMaxCmds == 2
\* request ids told apart in the runs that follow next_request_id (SpecId):
\* the counter is followed up to MaxId and stays there
MaxId == 3
\* commands the foreground thread submits in those runs
IdMaxCmds == 2

\* the runs that follow the count of received messages (SpecR): events the
\* dispatcher builds, and the value up to which the count is followed
RMaxEvents == 3
RMaxReceived == 4
\* automatic reconnects counted in the runs that follow the reconnect counter
\* (SpecA): the counter is followed up to AMaxReconnects and stays there
AMaxReconnects == 2
\* I3_HEARTBEAT_INTERVAL, in ticks of the clock the model follows
HeartbeatInterval == 2
\* the value up to which the clock is followed in the runs that follow the
\* heartbeat (SpecH)
MaxClock == 4

NULL == 0
NoFd == -1

Driver == "driver"
Fg == "fg"
Threads == {Driver, Fg}
NoThread == "none"

CmdIds == 1..(MaxCmds + QMaxCmds + IdMaxCmds + CMaxCmds)
EventIds == 1..(MaxEvents + QMaxEvents + DMaxEvents)

VARIABLES
    \* i3_client_t fields
    state,                \* i3_client->state
    socket_fd,            \* i3_client->socket_fd
    authenticated,        \* i3_client->authenticated
    state_mutex,          \* owner of i3_client->state_mutex, or NoThread
    command_mutex,        \* owner of i3_client->command_mutex, or NoThread
    event_mutex,          \* owner of i3_client->event_mutex, or NoThread
    command_queue_head,
    command_queue_tail,
    command_queue_size,
    cmd_next,             \* the next pointer of each i3_command_t
    event_queue_head,
    event_queue_tail,
    event_queue_size,
    ev_next,              \* the next pointer of each i3_event_t
    ev_type,              \* the type of each i3_event_t
    ev_fields,            \* channel, from_mud, from_user, to_user, message of each
    client_alive,         \* i3_client != NULL
    next_request_id,      \* i3_client->next_request_id
    messages_sent,        \* i3_client->messages_sent
    messages_received,    \* i3_client->messages_received
    errors,               \* i3_client->errors
    reconnects,           \* i3_client->reconnects
    mud_name,             \* i3_client->mud_name
    session_id,           \* i3_client->session_id
    \* configuration, read-only once loaded
    enable_tell,
    enable_channels,
    auto_reconnect,
    \* the process
    open_fds,             \* descriptors of sockets that are open
    pc,                   \* position of each thread
    ret,                  \* where the driver's i3_disconnect returns to
    cur_cmd,              \* the driver's local cmd
    cur_event,            \* the foreground thread's local event
    now,                  \* the driver's local now
    last_heartbeat,       \* the driver's local last_heartbeat
    id_tmp,               \* per thread: the value read by next_request_id++
    err_tmp,              \* per thread: the value read by errors++ in i3_error
    err_ret,              \* per thread: where its calls of i3_error return to
    rx_lines,             \* lines of the driver's buffer strtok has not returned yet
    rx_split,             \* the line recv() has delivered in part, if there is one
    \* what the environment does in this run: how many commands the players
    \* submit, how many events the gateway's lines produce, which lines it
    \* sends, how many of them one recv() returns at most and whether it
    \* returns in the middle of one, the values up to which next_request_id
    \* and the statistics counters are followed, and the length up to which
    \* the history of the inbound stream is followed
    env,
    \* inputs consumed so far
    cmds_offered,         \* commands allocated by the foreground thread
    events_created,       \* events allocated by the dispatcher
    \* history of the two queues
    cmd_accepted,         \* commands appended by i3_queue_command, in order
    cmd_popped,           \* commands returned by i3_pop_command, in order
    cmd_dropped,          \* commands destroyed by i3_queue_command
    submit_ret,           \* return value of the submit call that built each command
    last_submit,          \* return value of the last submit call, 1 before it
    ev_accepted,          \* events appended by i3_queue_event, in order
    ev_popped,            \* events returned by i3_pop_event, in order
    ev_dropped,           \* events destroyed by i3_queue_event
    params_puts,          \* json_object_put calls that reached each command's params
    \* history of the requests
    req_ids,              \* ids of the requests i3_create_request built, in order
    \* history of the connection
    attempts,             \* calls of i3_socket_connect the driver has made
    \* history of the inbound stream, each followed up to env.lines items
    stream,               \* lines whose terminator recv() has delivered, in order
    dispatched            \* lines handed to i3_handle_message and their path, in order

session == <<state, socket_fd, authenticated, state_mutex, client_alive, open_fds>>
cmdq == <<command_queue_head, command_queue_tail, command_queue_size, cmd_next>>
evq == <<event_queue_head, event_queue_tail, event_queue_size, ev_next, ev_type,
        ev_fields>>
cmdhist == <<cmd_accepted, cmd_popped, cmd_dropped, submit_ret, last_submit,
             cmds_offered>>
evhist == <<ev_accepted, ev_popped, ev_dropped, events_created>>
config == <<enable_tell, enable_channels, auto_reconnect, env>>
locals == <<ret, cur_cmd, rx_lines>>
ids == <<next_request_id, id_tmp, req_ids>>
counts == <<messages_sent, messages_received, errors, reconnects>>
stats == <<counts, err_tmp, err_ret>>
identity == <<mud_name, session_id>>
inbound == <<rx_split, stream, dispatched>>
queue_mutexes == <<command_mutex, event_mutex>>
timer == <<now, last_heartbeat>>
vars == <<session, config, cmdq, evq, cmdhist, evhist, locals, ids, stats,
          identity, inbound, queue_mutexes, cur_event, params_puts, timer,
          attempts, pc>>

(***************************************************************************)
(* i3_state_t                                                              *)
(***************************************************************************)
States == {"Disconnected", "Connecting", "Authenticating", "Connected",
           "Reconnecting", "Shutdown"}

(***************************************************************************)
(* Inbound documents: what one line of the stream decodes to.  A member    *)
(* that holds a string is Absent when the object does not have it and      *)
(* JsonNull when it has it with the value null, for which                  *)
(* json_object_object_get_ex succeeds and json_object_get_string returns   *)
(* NULL.                                                                   *)
(***************************************************************************)
Absent == "(absent)"
JsonNull == "(null)"

\* channel, from_mud, from_user, to_user, message
Fields(channel, from_mud, from_user, to_user, message) ==
    [channel |-> channel, from_mud |-> from_mud, from_user |-> from_user,
     to_user |-> to_user, message |-> message]

NoFields == Fields(Absent, Absent, Absent, Absent, Absent)

\* a zeroed i3_event_t
ZeroFields == Fields("", "", "", "", "")

Doc(valid, id, error, result, status, method, params) ==
    [valid |-> valid, id |-> id, error |-> error, result |-> result,
     status |-> status, method |-> method, params |-> params,
     \* error.message; result.mud_name, result.session_id; the members of params
     message |-> Absent, mud_name |-> Absent, session_id |-> Absent,
     fields |-> NoFields]

DocAuthOk == Doc(TRUE, TRUE, FALSE, TRUE, "authenticated", "", FALSE)
DocPending == Doc(TRUE, TRUE, FALSE, TRUE, "pending", "", FALSE)
DocError == Doc(TRUE, TRUE, TRUE, FALSE, "", "", FALSE)
DocTell == Doc(TRUE, FALSE, FALSE, FALSE, "", "tell_received", TRUE)
DocChannel == Doc(TRUE, FALSE, FALSE, FALSE, "", "channel_message", TRUE)
DocUnknown == Doc(TRUE, FALSE, FALSE, FALSE, "", "ping", FALSE)
DocBad == Doc(FALSE, FALSE, FALSE, FALSE, "", "", FALSE)

\* {"id":1,"result":{"status":"authenticated","mud_name":"TestMUD",
\*  "session_id":"abc"}}
DocAuthNamed ==
    [DocAuthOk EXCEPT !.mud_name = "TestMUD", !.session_id = "abc"]
\* the same with "mud_name":null
DocAuthNull == [DocAuthNamed EXCEPT !.mud_name = JsonNull]
\* {"id":2,"error":{"message":"denied"},"result":{"status":"authenticated"}}
DocErrorAuth ==
    [Doc(TRUE, TRUE, TRUE, TRUE, "authenticated", "", FALSE)
        EXCEPT !.message = "denied"]
\* {"id":2,"error":{"message":null}}
DocErrorNull == [DocError EXCEPT !.message = JsonNull]
\* {"method":"tell_received","params":{"from_mud":"OtherMUD",
\*  "from_user":"Bob","to_user":"Alice","message":"hi"}}
DocTellFull ==
    [DocTell EXCEPT !.fields = Fields(Absent, "OtherMUD", "Bob", "Alice", "hi")]
\* the same with "message":null
DocTellNull == [DocTellFull EXCEPT !.fields.message = JsonNull]
\* {"method":"channel_message","params":{"channel":"chat",
\*  "from_mud":"OtherMUD","from_user":"Bob","message":"hi"}}
DocChannelFull ==
    [DocChannel EXCEPT !.fields = Fields("chat", "OtherMUD", "Bob", Absent, "hi")]
\* {"id":3,"method":"ping"}
DocIdMethod == Doc(TRUE, TRUE, FALSE, FALSE, "", "ping", FALSE)
\* {"jsonrpc":"2.0"}
DocNeither == Doc(TRUE, FALSE, FALSE, FALSE, "", "", FALSE)

Docs == {DocAuthOk, DocPending, DocError, DocTell, DocChannel, DocUnknown, DocBad}
QDocs == {DocAuthOk, DocTell, DocBad}
RDocs == {DocAuthOk, DocTell, DocNeither, DocBad}
PDocs == {DocAuthOk, DocUnknown, DocIdMethod, DocNeither, DocBad}
FDocs == {DocAuthOk, DocUnknown}
DDocs == {DocAuthNamed, DocAuthNull, DocPending, DocErrorAuth, DocErrorNull,
          DocTellFull, DocTellNull, DocChannelFull, DocUnknown, DocIdMethod,
          DocNeither, DocBad}

(***************************************************************************)
(* Lines: what strtok cuts out of the receive buffer.  A line of the       *)
(* stream reaches the dispatcher whole, or, when recv() returned in the    *)
(* middle of it, as the part before the cut and, from the next recv(),     *)
(* the part after it.                                                      *)
(***************************************************************************)
Whole(doc) == [part |-> "whole", doc |-> doc]
HeadPart(doc) == [part |-> "head", doc |-> doc]
TailPart(doc) == [part |-> "tail", doc |-> doc]

\* json_tokener_parse: a part of a document is not a JSON text
Decode(line) == IF line.part = "whole" THEN line.doc ELSE DocBad

\* a history followed up to env.lines items
Record(history, item) ==
    IF Len(history) < env.lines THEN Append(history, item) ELSE history

(***************************************************************************)
(* The state after i3_initialize: the structure is zeroed by calloc, the   *)
(* defaults are set and the driver thread is created.                      *)
(***************************************************************************)
Created ==
    /\ state = "Disconnected"
    /\ socket_fd = NoFd
    /\ authenticated = FALSE
    /\ state_mutex = NoThread
    /\ command_mutex = NoThread
    /\ event_mutex = NoThread
    /\ command_queue_head = NULL
    /\ command_queue_tail = NULL
    /\ command_queue_size = 0
    /\ cmd_next = [c \in CmdIds |-> NULL]
    /\ event_queue_head = NULL
    /\ event_queue_tail = NULL
    /\ event_queue_size = 0
    /\ ev_next = [e \in EventIds |-> NULL]
    /\ ev_type = [e \in EventIds |-> "none"]
    /\ ev_fields = [e \in EventIds |-> ZeroFields]
    /\ client_alive = TRUE
    /\ next_request_id = 1
    /\ id_tmp = [t \in Threads |-> 0]
    /\ req_ids = <<>>
    /\ messages_sent = 0
    /\ messages_received = 0
    /\ errors = 0
    /\ reconnects = 0
    /\ mud_name = ""
    /\ session_id = ""
    /\ err_tmp = [t \in Threads |-> 0]
    /\ err_ret = [t \in Threads |-> <<>>]
    /\ open_fds = {}
    /\ pc = [t \in Threads |-> IF t = Driver THEN "thread_start" ELSE "idle"]
    /\ ret = "loop"
    /\ cur_cmd = NULL
    /\ cur_event = NULL
    /\ now = 0
    /\ last_heartbeat = 0
    /\ params_puts = [c \in CmdIds |-> 0]
    /\ attempts = 0
    /\ rx_lines = <<>>
    /\ rx_split = <<>>
    /\ stream = <<>>
    /\ dispatched = <<>>
    /\ cmds_offered = 0
    /\ events_created = 0
    /\ cmd_accepted = <<>>
    /\ cmd_popped = <<>>
    /\ cmd_dropped = {}
    /\ submit_ret = [c \in CmdIds |-> 1]
    /\ last_submit = 1
    /\ ev_accepted = <<>>
    /\ ev_popped = <<>>
    /\ ev_dropped = {}

\* the configuration when i3_load_config changes none of the defaults
Defaults ==
    /\ enable_tell = TRUE
    /\ enable_channels = TRUE
    /\ auto_reconnect = TRUE

\* the runs that do not follow the statistics counters
NoCount ==
    [sent |-> 0, received |-> 0, errors |-> 0, reconnects |-> 0, attempts |-> 0]

Init ==
    /\ Created
    /\ Defaults
    /\ env = [cmds |-> MaxCmds, events |-> MaxEvents, docs |-> Docs, ids |-> 1,
              count |-> NoCount, lines |-> 0, batch |-> 1, split |-> FALSE, clock |-> 0]

\* the runs that exercise the queues: more commands and events than a queue
\* holds
InitQ ==
    /\ Created
    /\ Defaults
    /\ env = [cmds |-> QMaxCmds, events |-> QMaxEvents, docs |-> QDocs,
              ids |-> 1, count |-> NoCount, lines |-> 0, batch |-> 1, split |-> FALSE, clock |-> 0]

\* the runs that follow next_request_id
InitId ==
    /\ Created
    /\ Defaults
    /\ env = [cmds |-> IdMaxCmds, events |-> 0, docs |-> {DocAuthOk},
              ids |-> MaxId, count |-> NoCount, lines |-> 0, batch |-> 1,
              split |-> FALSE, clock |-> 0]

\* the runs that exercise the dispatcher: every kind of line
InitD ==
    /\ Created
    /\ Defaults
    /\ env = [cmds |-> MaxCmds, events |-> DMaxEvents, docs |-> DDocs, ids |-> 1,
              count |-> [NoCount EXCEPT !.errors = DMaxErrors,
                                        !.received = DMaxReceived],
              lines |-> DMaxLines, batch |-> 1, split |-> FALSE, clock |-> 0]

\* the runs that follow the path of each line: lines with and without an id
\* and a method, none of which produces an event
InitP ==
    /\ Created
    /\ Defaults
    /\ env = [cmds |-> MaxCmds, events |-> 0, docs |-> PDocs, ids |-> 1,
              count |-> NoCount, lines |-> PMaxLines, batch |-> 1,
              split |-> FALSE, clock |-> 0]

\* the runs that follow the framing of the stream: recv() returns several
\* lines at once, or returns in the middle of a line
InitF ==
    /\ Created
    /\ Defaults
    /\ env = [cmds |-> MaxCmds, events |-> 0, docs |-> FDocs, ids |-> 1,
              count |-> NoCount, lines |-> FMaxLines, batch |-> FMaxBatch,
              split |-> TRUE, clock |-> 0]

\* the runs that follow the feature toggles: i3_load_config has read any
\* values for enable_tell and enable_channels
InitC ==
    /\ Created
    /\ enable_tell \in BOOLEAN
    /\ enable_channels \in BOOLEAN
    /\ auto_reconnect = TRUE
    /\ env = [cmds |-> CMaxCmds, events |-> 0, docs |-> {DocAuthOk},
              ids |-> MaxId, count |-> NoCount, lines |-> 0, batch |-> 1,
              split |-> FALSE, clock |-> 0]

\* the runs that follow the count of received messages: more events than the
\* queue holds, lines that decode and lines that do not
InitR ==
    /\ Created
    /\ Defaults
    /\ env = [cmds |-> MaxCmds, events |-> RMaxEvents, docs |-> RDocs, ids |-> 1,
              count |-> [NoCount EXCEPT !.received = RMaxReceived],
              lines |-> 0, batch |-> 1, split |-> FALSE, clock |-> 0]

\* the runs that follow the heartbeat timer: time(NULL) is followed up to
\* MaxClock
InitH ==
    /\ Created
    /\ Defaults
    /\ env = [cmds |-> MaxCmds, events |-> 0, docs |-> {DocAuthOk}, ids |-> 1,
              count |-> NoCount, lines |-> 0, batch |-> 1, split |-> FALSE,
              clock |-> MaxClock]

\* the runs that follow the automatic reconnect: i3_load_config has read any
\* value for auto_reconnect
InitA ==
    /\ Created
    /\ enable_tell = TRUE
    /\ enable_channels = TRUE
    /\ auto_reconnect \in BOOLEAN
    /\ env = [cmds |-> MaxCmds, events |-> 0, docs |-> {DocAuthOk}, ids |-> 1,
              count |-> [NoCount EXCEPT !.reconnects = AMaxReconnects,
                                        !.attempts = AMaxReconnects + 1],
              lines |-> 0, batch |-> 1, split |-> FALSE, clock |-> 0]

Goto(t, label) == pc' = [pc EXCEPT ![t] = label]

(***************************************************************************)
(* The command queue (i3_client.c).  Each operation is one critical        *)
(* section of command_mutex.                                               *)
(***************************************************************************)
\* i3_queue_command without its capacity test
QueueCommandNoCheck(cmd) ==
    /\ cmd_next' = IF command_queue_tail # NULL
                   THEN [cmd_next EXCEPT ![cmd] = NULL, ![command_queue_tail] = cmd]
                   ELSE [cmd_next EXCEPT ![cmd] = NULL]
    /\ command_queue_head' = IF command_queue_tail # NULL THEN command_queue_head ELSE cmd
    /\ command_queue_tail' = cmd
    /\ command_queue_size' = command_queue_size + 1
    /\ cmd_accepted' = Append(cmd_accepted, cmd)
    /\ UNCHANGED cmd_dropped

\* i3_queue_command
QueueCommand(cmd) ==
    IF command_queue_size >= MaxQueueSize
    THEN \* full: the command and its params are freed, nothing is returned
         /\ cmd_dropped' = cmd_dropped \cup {cmd}
         /\ UNCHANGED <<cmdq, cmd_accepted>>
    ELSE /\ cmd_next' = IF command_queue_tail # NULL
                        THEN [cmd_next EXCEPT ![cmd] = NULL, ![command_queue_tail] = cmd]
                        ELSE [cmd_next EXCEPT ![cmd] = NULL]
         /\ command_queue_head' = IF command_queue_tail # NULL THEN command_queue_head ELSE cmd
         /\ command_queue_tail' = cmd
         /\ command_queue_size' = command_queue_size + 1
         /\ cmd_accepted' = Append(cmd_accepted, cmd)
         /\ UNCHANGED cmd_dropped

\* i3_pop_command that leaves command_queue_tail alone when the queue empties
PopCommandStaleTail ==
    IF command_queue_head # NULL
    THEN /\ command_queue_head' = cmd_next[command_queue_head]
         /\ command_queue_size' = command_queue_size - 1
         /\ cmd_popped' = Append(cmd_popped, command_queue_head)
         /\ UNCHANGED <<command_queue_tail, cmd_next>>
    ELSE UNCHANGED <<cmdq, cmd_popped>>

\* i3_pop_command; the command returned is command_queue_head (NULL when empty)
PopCommand ==
    IF command_queue_head # NULL
    THEN /\ command_queue_head' = cmd_next[command_queue_head]
         /\ command_queue_tail' = IF cmd_next[command_queue_head] = NULL
                                  THEN NULL ELSE command_queue_tail
         /\ command_queue_size' = command_queue_size - 1
         /\ cmd_popped' = Append(cmd_popped, command_queue_head)
         /\ UNCHANGED cmd_next
    ELSE UNCHANGED <<cmdq, cmd_popped>>

(***************************************************************************)
(* The event queue (i3_protocol.c, i3_client.c).  Each operation is one    *)
(* critical section of event_mutex.                                        *)
(***************************************************************************)
\* i3_queue_event
QueueEvent(event) ==
    IF event_queue_size >= MaxQueueSize
    THEN \* full: the event is freed, nothing is returned
         /\ ev_dropped' = ev_dropped \cup {event}
         /\ UNCHANGED <<event_queue_head, event_queue_tail, event_queue_size,
                        ev_next, ev_accepted>>
    ELSE /\ ev_next' = IF event_queue_tail # NULL
                       THEN [ev_next EXCEPT ![event] = NULL, ![event_queue_tail] = event]
                       ELSE [ev_next EXCEPT ![event] = NULL]
         /\ event_queue_head' = IF event_queue_tail # NULL THEN event_queue_head ELSE event
         /\ event_queue_tail' = event
         /\ event_queue_size' = event_queue_size + 1
         /\ ev_accepted' = Append(ev_accepted, event)
         /\ UNCHANGED ev_dropped

\* i3_pop_event that leaves event_queue_tail alone when the queue empties
PopEventStaleTail ==
    IF event_queue_head # NULL
    THEN /\ event_queue_head' = ev_next[event_queue_head]
         /\ event_queue_size' = event_queue_size - 1
         /\ ev_popped' = Append(ev_popped, event_queue_head)
         /\ UNCHANGED <<event_queue_tail, ev_next, ev_type, ev_fields>>
    ELSE UNCHANGED <<evq, ev_popped>>

\* i3_pop_event; the event returned is event_queue_head (NULL when empty)
PopEvent ==
    IF event_queue_head # NULL
    THEN /\ event_queue_head' = ev_next[event_queue_head]
         /\ event_queue_tail' = IF ev_next[event_queue_head] = NULL
                                THEN NULL ELSE event_queue_tail
         /\ event_queue_size' = event_queue_size - 1
         /\ ev_popped' = Append(ev_popped, event_queue_head)
         /\ UNCHANGED <<ev_next, ev_type, ev_fields>>
    ELSE UNCHANGED <<evq, ev_popped>>

(***************************************************************************)
(* Sockets.  socket() returns the lowest descriptor that is not open;      *)
(* close() of a descriptor that is not open fails with EBADF.              *)
(***************************************************************************)
FdRange == 0..(MaxFd - 1)
FreeFds == FdRange \ open_fds
LowestFree == CHOOSE fd \in FreeFds : \A other \in FreeFds : fd <= other
IsOpen(fd) == fd \in open_fds

(***************************************************************************)
(* The statistics counters and i3_error (i3_client.c).  A counter is       *)
(* followed up to its field of env.count and stays there.  i3_error logs   *)
(* and runs errors++, a read and a write of the field with no lock held,   *)
(* on the thread that calls it.                                            *)
(***************************************************************************)
Bump(v, cap) == IF v < cap THEN v + 1 ELSE cap

\* thread t goes on at the first of the positions calls and keeps the rest as
\* the positions its calls of i3_error return to
Proceed(t, calls) ==
    /\ Goto(t, Head(calls))
    /\ err_ret' = [err_ret EXCEPT ![t] = Tail(calls)]

\* the read of errors++
ErrorRead(t) ==
    /\ pc[t] = "i3_error"
    /\ err_tmp' = [err_tmp EXCEPT ![t] = errors]
    /\ Goto(t, "i3_error_store")
    /\ UNCHANGED <<counts, err_ret>>
    /\ UNCHANGED <<session, config, cmdq, evq, cmdhist, evhist, locals, ids>>
    /\ UNCHANGED <<identity, inbound>>
    /\ UNCHANGED <<queue_mutexes, cur_event, params_puts, timer, attempts>>

\* the write of errors++, and the return
ErrorStore(t) ==
    /\ pc[t] = "i3_error_store"
    /\ errors' = Bump(err_tmp[t], env.count.errors)
    /\ err_tmp' = [err_tmp EXCEPT ![t] = 0]
    /\ Proceed(t, err_ret[t])
    /\ UNCHANGED <<messages_sent, messages_received, reconnects>>
    /\ UNCHANGED <<session, config, cmdq, evq, cmdhist, evhist, locals, ids>>
    /\ UNCHANGED <<identity, inbound>>
    /\ UNCHANGED <<queue_mutexes, cur_event, params_puts, timer, attempts>>

(***************************************************************************)
(* i3_create_request (i3_protocol.c): the id of the request is             *)
(* next_request_id++, a read and a write of the field with no lock held.   *)
(* The driver calls it in i3_authenticate, for each queued command and in  *)
(* i3_heartbeat.                                                           *)
(***************************************************************************)
RequestSites == {"auth", "cmd", "hb"}
ReqReadAt == [auth |-> "auth_req", cmd |-> "cmd_req", hb |-> "hb_req"]
ReqWriteAt == [auth |-> "auth_req_id", cmd |-> "cmd_req_id", hb |-> "hb_req_id"]
ReqSendAt == [auth |-> "auth_send", cmd |-> "cmd_send", hb |-> "hb_send"]

\* the value next_request_id++ stores after it read v
NextId(v) == IF v + 1 < env.ids THEN v + 1 ELSE env.ids

\* the read of next_request_id++
CreateRequestRead(site) ==
    /\ pc[Driver] = ReqReadAt[site]
    /\ id_tmp' = [id_tmp EXCEPT ![Driver] = next_request_id]
    /\ Goto(Driver, ReqWriteAt[site])
    /\ UNCHANGED <<next_request_id, req_ids>>
    /\ UNCHANGED <<session, config, cmdq, evq, cmdhist, evhist, locals, stats>>
    /\ UNCHANGED <<identity, inbound>>
    /\ UNCHANGED <<queue_mutexes, cur_event, params_puts, timer, attempts>>

\* the write of next_request_id++; the request carries the value read
CreateRequestWrite(site) ==
    /\ pc[Driver] = ReqWriteAt[site]
    /\ next_request_id' = NextId(id_tmp[Driver])
    /\ req_ids' = IF id_tmp[Driver] < env.ids
                  THEN Append(req_ids, id_tmp[Driver])
                  ELSE req_ids
    /\ id_tmp' = [id_tmp EXCEPT ![Driver] = 0]
    /\ Goto(Driver, ReqSendAt[site])
    /\ UNCHANGED <<session, config, cmdq, evq, cmdhist, evhist, locals, stats>>
    /\ UNCHANGED <<identity, inbound>>
    /\ UNCHANGED <<queue_mutexes, cur_event, params_puts, timer, attempts>>

(***************************************************************************)
(* i3_connect (i3_client.c), run by the driver thread and, through the     *)
(* 'i3 reconnect' command, by the foreground thread.                       *)
(***************************************************************************)
\* where i3_connect returns to: the driver authenticates after a successful
\* connect and enters its main loop otherwise; do_i3 ignores the result
ConnectReturn(t, rv) ==
    IF t = Driver
    THEN (IF rv = 0 THEN ReqReadAt["auth"] ELSE "loop_check")
    ELSE "idle"

ConnectLock(t) ==
    /\ pc[t] = "connect_lock"
    /\ state_mutex = NoThread
    /\ state_mutex' = t
    /\ Goto(t, "connect_set")
    /\ UNCHANGED <<state, socket_fd, authenticated, client_alive, open_fds>>
    /\ UNCHANGED <<config, cmdq, evq, cmdhist, evhist, locals, ids, stats>>
    /\ UNCHANGED <<identity, inbound>>
    /\ UNCHANGED <<queue_mutexes, cur_event, params_puts, timer, attempts>>

ConnectSet(t) ==
    /\ pc[t] = "connect_set"
    /\ state' = "Connecting"
    /\ state_mutex' = NoThread
    /\ Goto(t, "connect_sock")
    /\ UNCHANGED <<socket_fd, authenticated, client_alive, open_fds>>
    /\ UNCHANGED <<config, cmdq, evq, cmdhist, evhist, locals, ids, stats>>
    /\ UNCHANGED <<identity, inbound>>
    /\ UNCHANGED <<queue_mutexes, cur_event, params_puts, timer, attempts>>

\* socket_fd = i3_socket_connect(...): a new socket; or socket(),
\* gethostbyname() or connect() fails (the socket is then closed again), the
\* failure is logged and -1 is returned
ConnectSock(t) ==
    /\ pc[t] = "connect_sock"
    /\ \/ /\ FreeFds # {}
          /\ socket_fd' = LowestFree
          /\ open_fds' = open_fds \cup {LowestFree}
          /\ Proceed(t, <<"connect_chk">>)
          \* the stream of the new connection starts at a line
          /\ rx_split' = <<>>
       \/ /\ Proceed(t, <<"i3_error", "connect_assign">>)
          /\ UNCHANGED <<socket_fd, open_fds, rx_split>>
    /\ UNCHANGED <<state, authenticated, state_mutex, client_alive>>
    /\ UNCHANGED <<config, cmdq, evq, cmdhist, evhist, locals, ids, counts, err_tmp>>
    /\ UNCHANGED <<identity, stream, dispatched>>
    /\ attempts' = IF t = Driver THEN Bump(attempts, env.count.attempts)
                   ELSE attempts
    /\ UNCHANGED <<queue_mutexes, cur_event, params_puts, timer>>

\* socket_fd = -1, the result of the failed i3_socket_connect
ConnectAssign(t) ==
    /\ pc[t] = "connect_assign"
    /\ socket_fd' = NoFd
    /\ Goto(t, "connect_chk")
    /\ UNCHANGED <<state, authenticated, state_mutex, client_alive, open_fds>>
    /\ UNCHANGED <<config, cmdq, evq, cmdhist, evhist, locals, ids, stats>>
    /\ UNCHANGED <<identity, inbound>>
    /\ UNCHANGED <<queue_mutexes, cur_event, params_puts, timer, attempts>>

ConnectChk(t) ==
    /\ pc[t] = "connect_chk"
    /\ IF socket_fd < 0
       THEN Proceed(t, <<"i3_error", "connect_fail_lock">>)
       ELSE Proceed(t, <<ConnectReturn(t, 0)>>)
    /\ UNCHANGED <<session, config, cmdq, evq, cmdhist, evhist, locals, ids>>
    /\ UNCHANGED <<counts, err_tmp>>
    /\ UNCHANGED <<identity, inbound>>
    /\ UNCHANGED <<queue_mutexes, cur_event, params_puts, timer, attempts>>

ConnectFailLock(t) ==
    /\ pc[t] = "connect_fail_lock"
    /\ state_mutex = NoThread
    /\ state_mutex' = t
    /\ Goto(t, "connect_fail_set")
    /\ UNCHANGED <<state, socket_fd, authenticated, client_alive, open_fds>>
    /\ UNCHANGED <<config, cmdq, evq, cmdhist, evhist, locals, ids, stats>>
    /\ UNCHANGED <<identity, inbound>>
    /\ UNCHANGED <<queue_mutexes, cur_event, params_puts, timer, attempts>>

ConnectFailSet(t) ==
    /\ pc[t] = "connect_fail_set"
    /\ state' = "Disconnected"
    /\ state_mutex' = NoThread
    /\ Goto(t, ConnectReturn(t, -1))
    /\ UNCHANGED <<socket_fd, authenticated, client_alive, open_fds>>
    /\ UNCHANGED <<config, cmdq, evq, cmdhist, evhist, locals, ids, stats>>
    /\ UNCHANGED <<identity, inbound>>
    /\ UNCHANGED <<queue_mutexes, cur_event, params_puts, timer, attempts>>

(***************************************************************************)
(* i3_disconnect (i3_client.c), run by the driver thread on a lost         *)
(* connection and on exit, and by the foreground thread for 'i3 reconnect'.*)
(***************************************************************************)
\* where i3_disconnect returns to
DisconnectReturn(t) ==
    IF t = Driver
    THEN (IF ret = "exit" THEN "done" ELSE "hb_check")
    ELSE "connect_lock"

\* if (state != I3_STATE_SHUTDOWN) state = I3_STATE_DISCONNECTED
StateAfterDisconnect(s) == IF s # "Shutdown" THEN "Disconnected" ELSE s

DiscChk(t) ==
    /\ pc[t] = "disc_chk"
    /\ IF socket_fd >= 0
       THEN Goto(t, "disc_close")
       ELSE Goto(t, "disc_lock")
    /\ UNCHANGED <<session, config, cmdq, evq, cmdhist, evhist, locals, ids, stats>>
    /\ UNCHANGED <<identity, inbound>>
    /\ UNCHANGED <<queue_mutexes, cur_event, params_puts, timer, attempts>>

\* close(i3_client->socket_fd)
DiscClose(t) ==
    /\ pc[t] = "disc_close"
    /\ open_fds' = open_fds \ {socket_fd}
    /\ Goto(t, "disc_clear")
    /\ UNCHANGED <<state, socket_fd, authenticated, state_mutex, client_alive>>
    /\ UNCHANGED <<config, cmdq, evq, cmdhist, evhist, locals, ids, stats>>
    /\ UNCHANGED <<identity, inbound>>
    /\ UNCHANGED <<queue_mutexes, cur_event, params_puts, timer, attempts>>

DiscClear(t) ==
    /\ pc[t] = "disc_clear"
    /\ socket_fd' = NoFd
    /\ Goto(t, "disc_lock")
    /\ UNCHANGED <<state, authenticated, state_mutex, client_alive, open_fds>>
    /\ UNCHANGED <<config, cmdq, evq, cmdhist, evhist, locals, ids, stats>>
    /\ UNCHANGED <<identity, inbound>>
    /\ UNCHANGED <<queue_mutexes, cur_event, params_puts, timer, attempts>>

DiscLock(t) ==
    /\ pc[t] = "disc_lock"
    /\ state_mutex = NoThread
    /\ state_mutex' = t
    /\ Goto(t, "disc_set")
    /\ UNCHANGED <<state, socket_fd, authenticated, client_alive, open_fds>>
    /\ UNCHANGED <<config, cmdq, evq, cmdhist, evhist, locals, ids, stats>>
    /\ UNCHANGED <<identity, inbound>>
    /\ UNCHANGED <<queue_mutexes, cur_event, params_puts, timer, attempts>>

DiscSet(t) ==
    /\ pc[t] = "disc_set"
    /\ state' = StateAfterDisconnect(state)
    /\ state_mutex' = NoThread
    /\ Goto(t, "disc_auth")
    /\ UNCHANGED <<socket_fd, authenticated, client_alive, open_fds>>
    /\ UNCHANGED <<config, cmdq, evq, cmdhist, evhist, locals, ids, stats>>
    /\ UNCHANGED <<identity, inbound>>
    /\ UNCHANGED <<queue_mutexes, cur_event, params_puts, timer, attempts>>

\* i3_client->authenticated = false, after the mutex was released
DiscAuth(t) ==
    /\ pc[t] = "disc_auth"
    /\ authenticated' = FALSE
    /\ Goto(t, DisconnectReturn(t))
    /\ UNCHANGED <<state, socket_fd, state_mutex, client_alive, open_fds>>
    /\ UNCHANGED <<config, cmdq, evq, cmdhist, evhist, locals, ids, stats>>
    /\ UNCHANGED <<identity, inbound>>
    /\ UNCHANGED <<queue_mutexes, cur_event, params_puts, timer, attempts>>

(***************************************************************************)
(* The dispatcher (i3_protocol.c): which path a decoded line takes.        *)
(***************************************************************************)
\* i3_parse_response with the test of "method" ahead of the test of "id"
ParsePathMethodFirst(doc) ==
    IF ~doc.valid THEN "bad"
    ELSE IF doc.method # "" THEN "notification"
    ELSE IF doc.id THEN "response"
    ELSE "neither"

\* i3_parse_response: a line that does not parse is reported and dropped; a
\* document with an id is a response, one with a method and no id is a
\* notification
ParsePath(doc) ==
    IF ~doc.valid THEN "bad"
    ELSE IF doc.id THEN "response"
    ELSE IF doc.method # "" THEN "notification"
    ELSE "neither"

\* i3_handle_message hands the line to i3_parse_response
HandleMessagePath(doc) == ParsePath(doc)

\* i3_handle_response: "error" when the error member is present, "auth" when
\* result.status is "authenticated", "other" otherwise
ResponseKind(doc) ==
    IF doc.error THEN "error"
    ELSE IF doc.result /\ doc.status = "authenticated" THEN "auth"
    ELSE "other"

\* i3_handle_notification with i3_handle_tell_received and
\* i3_handle_channel_message: the type of the event built, "none" when the
\* method is not recognized or the notification carries no params
NotificationEvent(doc) ==
    IF doc.method = "tell_received" /\ doc.params THEN "Tell"
    ELSE IF doc.method = "channel_message" /\ doc.params THEN "Channel"
    ELSE "none"

\* the type of the event one line makes the dispatcher build, "none" if none
EventOf(doc) ==
    IF HandleMessagePath(doc) = "response"
    THEN (IF ResponseKind(doc) = "error" THEN "Error" ELSE "none")
    ELSE IF HandleMessagePath(doc) = "notification" THEN NotificationEvent(doc)
    ELSE "none"

\* strcpy(dst, json_object_get_string(obj)) under json_object_object_get_ex:
\* the member's string when it has one, dst as it was when the member is
\* absent; when the member is null the source is NULL and the copy is
\* undefined, with v the string the build leaves in dst if it returns
StrCpy(dst, member, v) ==
    IF member = Absent THEN dst
    ELSE IF member = JsonNull THEN v
    ELSE member

\* what a copy from NULL may leave behind
Unspecified == {"(unspecified)"}

\* the members the handlers of doc copy
Copied(doc) ==
    IF HandleMessagePath(doc) = "response"
    THEN (IF ResponseKind(doc) = "error" THEN {doc.message}
          ELSE IF ResponseKind(doc) = "auth" THEN {doc.mud_name, doc.session_id}
          ELSE {})
    ELSE IF NotificationEvent(doc) = "Tell"
    THEN {doc.fields.from_mud, doc.fields.from_user, doc.fields.to_user,
          doc.fields.message}
    ELSE IF NotificationEvent(doc) = "Channel"
    THEN {doc.fields.channel, doc.fields.from_mud, doc.fields.from_user,
          doc.fields.message}
    ELSE {}

\* handling doc copies from NULL
CopiesNull(doc) == JsonNull \in Copied(doc)

\* the fields of the event built for doc
EventFields(doc, v) ==
    IF EventOf(doc) = "Error"
    THEN [ZeroFields EXCEPT
            !.message = IF doc.message = Absent THEN "Unknown error"
                        ELSE StrCpy("", doc.message, v)]
    ELSE IF EventOf(doc) = "Tell"
    THEN [ZeroFields EXCEPT
            !.from_mud = StrCpy("", doc.fields.from_mud, v),
            !.from_user = StrCpy("", doc.fields.from_user, v),
            !.to_user = StrCpy("", doc.fields.to_user, v),
            !.message = StrCpy("", doc.fields.message, v)]
    ELSE [ZeroFields EXCEPT
            !.channel = StrCpy("", doc.fields.channel, v),
            !.from_mud = StrCpy("", doc.fields.from_mud, v),
            !.from_user = StrCpy("", doc.fields.from_user, v),
            !.message = StrCpy("", doc.fields.message, v)]

\* what one recv() may deliver when it returns whole lines: the lines strtok
\* cuts the buffer into
RxBatches ==
    UNION {{[i \in 1..n |-> Whole(docs[i])] : docs \in [1..n -> env.docs]} :
              n \in 1..env.batch}

RECURSIVE EventsIn(_)
EventsIn(lines) ==
    IF lines = <<>> THEN 0
    ELSE (IF EventOf(Decode(Head(lines))) # "none" THEN 1 ELSE 0)
            + EventsIn(Tail(lines))

RECURSIVE RecordAll(_, _)
RecordAll(history, lines) ==
    IF lines = <<>> THEN history
    ELSE RecordAll(Record(history, Head(lines).doc), Tail(lines))

(***************************************************************************)
(* i3_send_json (i3_protocol.c): -1 when there is no socket or send()      *)
(* fails, 0 when send() took the line.                                     *)
(***************************************************************************)
SendResults ==
    IF socket_fd < 0 \/ ~IsOpen(socket_fd) THEN {-1} ELSE {0, -1}

\* the driver's call of i3_send_json with this result: a line sent is
\* counted, a failure of send() is logged (a missing socket is not); the
\* driver then goes on at calls
SendJson(result, calls) ==
    /\ messages_sent' = IF result = 0 THEN Bump(messages_sent, env.count.sent) ELSE messages_sent
    /\ Proceed(Driver, (IF result < 0 /\ socket_fd >= 0
                        THEN <<"i3_error">> ELSE <<>>) \o calls)

\* the process is terminated by a signal
Fault == pc' = [t \in Threads |-> "fault"]

(***************************************************************************)
(* i3_client_thread (i3_client.c)                                          *)
(***************************************************************************)
\* the initial i3_connect() call
ThreadStart ==
    /\ pc[Driver] = "thread_start"
    /\ Goto(Driver, "connect_lock")
    /\ UNCHANGED <<session, config, cmdq, evq, cmdhist, evhist, locals, ids, stats>>
    /\ UNCHANGED <<identity, inbound>>
    /\ UNCHANGED <<queue_mutexes, cur_event, params_puts, timer, attempts>>

\* i3_authenticate: send the authenticate request; a failed result is
\* logged and -1 returned
AuthSend ==
    /\ pc[Driver] = "auth_send"
    /\ \E result \in SendResults :
          SendJson(result, IF result < 0
                           THEN <<"i3_error", "loop_check">>
                           ELSE <<"auth_lock">>)
    /\ UNCHANGED <<messages_received, errors, reconnects, err_tmp>>
    /\ UNCHANGED <<session, config, cmdq, evq, cmdhist, evhist, locals, ids>>
    /\ UNCHANGED <<identity, inbound>>
    /\ UNCHANGED <<queue_mutexes, cur_event, params_puts, timer, attempts>>

AuthLock ==
    /\ pc[Driver] = "auth_lock"
    /\ state_mutex = NoThread
    /\ state_mutex' = Driver
    /\ Goto(Driver, "auth_set")
    /\ UNCHANGED <<state, socket_fd, authenticated, client_alive, open_fds>>
    /\ UNCHANGED <<config, cmdq, evq, cmdhist, evhist, locals, ids, stats>>
    /\ UNCHANGED <<identity, inbound>>
    /\ UNCHANGED <<queue_mutexes, cur_event, params_puts, timer, attempts>>

AuthSet ==
    /\ pc[Driver] = "auth_set"
    /\ state' = "Authenticating"
    /\ state_mutex' = NoThread
    /\ Goto(Driver, "loop_check")
    /\ UNCHANGED <<socket_fd, authenticated, client_alive, open_fds>>
    /\ UNCHANGED <<config, cmdq, evq, cmdhist, evhist, locals, ids, stats>>
    /\ UNCHANGED <<identity, inbound>>
    /\ UNCHANGED <<queue_mutexes, cur_event, params_puts, timer, attempts>>

\* while (i3_client->state != I3_STATE_SHUTDOWN); on exit i3_disconnect()
LoopCheck ==
    /\ pc[Driver] = "loop_check"
    /\ IF state # "Shutdown"
       THEN Goto(Driver, "reconn_check") /\ UNCHANGED ret
       ELSE Goto(Driver, "disc_chk") /\ ret' = "exit"
    /\ UNCHANGED <<session, config, cmdq, evq, cmdhist, evhist, cur_cmd, rx_lines, ids, stats>>
    /\ UNCHANGED <<identity, inbound>>
    /\ UNCHANGED <<queue_mutexes, cur_event, params_puts, timer, attempts>>

\* if (state == I3_STATE_DISCONNECTED && auto_reconnect)
ReconnCheck ==
    /\ pc[Driver] = "reconn_check"
    /\ IF state = "Disconnected" /\ auto_reconnect
       THEN Goto(Driver, "sleep")
       ELSE Goto(Driver, "pop_cmd")
    /\ UNCHANGED <<session, config, cmdq, evq, cmdhist, evhist, locals, ids, stats>>
    /\ UNCHANGED <<identity, inbound>>
    /\ UNCHANGED <<queue_mutexes, cur_event, params_puts, timer, attempts>>

\* sleep(reconnect_delay); i3_reconnect(); continue
SleepReconnect ==
    /\ pc[Driver] = "sleep"
    /\ reconnects' = Bump(reconnects, env.count.reconnects)
    /\ Goto(Driver, "connect_lock")
    /\ UNCHANGED <<messages_sent, messages_received, errors, err_tmp, err_ret>>
    /\ UNCHANGED <<session, config, cmdq, evq, cmdhist, evhist, locals, ids>>
    /\ UNCHANGED <<identity, inbound>>
    /\ UNCHANGED <<queue_mutexes, cur_event, params_puts, timer, attempts>>

\* cmd = i3_pop_command(): the lock and the critical section
PopCmd ==
    /\ pc[Driver] = "pop_cmd"
    /\ command_mutex = NoThread
    /\ command_mutex' = Driver
    /\ cur_cmd' = command_queue_head
    /\ PopCommand
    /\ Goto(Driver, "pop_cmd_unlock")
    /\ UNCHANGED <<cmd_accepted, cmd_dropped, submit_ret, last_submit, cmds_offered>>
    /\ UNCHANGED <<session, config, evq, evhist, ret, rx_lines, ids, stats>>
    /\ UNCHANGED <<identity, inbound>>
    /\ UNCHANGED <<event_mutex, cur_event, params_puts, timer, attempts>>

\* an i3_pop_command that returns without unlocking command_mutex
PopCmdKeepLocked ==
    /\ pc[Driver] = "pop_cmd_unlock"
    /\ UNCHANGED command_mutex
    /\ IF cur_cmd # NULL
       THEN Goto(Driver, ReqReadAt["cmd"])
       ELSE Goto(Driver, "sock_check")
    /\ UNCHANGED <<session, config, cmdq, evq, cmdhist, evhist, locals, ids, stats>>
    /\ UNCHANGED <<identity, inbound>>
    /\ UNCHANGED <<event_mutex, cur_event, params_puts, timer, attempts>>

\* the unlock at the end of i3_pop_command, and if (cmd)
PopCmdUnlock ==
    /\ pc[Driver] = "pop_cmd_unlock"
    /\ command_mutex' = NoThread
    /\ IF cur_cmd # NULL
       THEN Goto(Driver, ReqReadAt["cmd"])
       ELSE Goto(Driver, "sock_check")
    /\ UNCHANGED <<session, config, cmdq, evq, cmdhist, evhist, locals, ids, stats>>
    /\ UNCHANGED <<identity, inbound>>
    /\ UNCHANGED <<event_mutex, cur_event, params_puts, timer, attempts>>

\* i3_send_json(request); its result is not looked at
CmdSend ==
    /\ pc[Driver] = "cmd_send"
    /\ \E result \in SendResults : SendJson(result, <<"cmd_free">>)
    /\ UNCHANGED <<messages_received, errors, reconnects, err_tmp>>
    /\ UNCHANGED <<session, config, cmdq, evq, cmdhist, evhist, locals, ids>>
    /\ UNCHANGED <<identity, inbound>>
    /\ UNCHANGED <<queue_mutexes, cur_event, params_puts, timer, attempts>>

\* json_object_put(request): the request holds the only reference to the
\* params (json_object_object_add takes none of its own), so the params are
\* released with it.  Then i3_free_command(cmd), which calls
\* json_object_put(cmd->params) on the released object and frees cmd: the
\* process goes on or is terminated.
CmdFree ==
    /\ pc[Driver] = "cmd_free"
    /\ params_puts' = [params_puts EXCEPT ![cur_cmd] = @ + 2]
    /\ cur_cmd' = NULL
    /\ \/ Goto(Driver, "sock_check")
       \/ Fault
    /\ UNCHANGED <<session, config, cmdq, evq, cmdhist, evhist, ret, rx_lines, ids>>
    /\ UNCHANGED <<stats, identity, inbound>>
    /\ UNCHANGED <<queue_mutexes, cur_event, timer, attempts>>

\* if (i3_client->socket_fd >= 0)
SockCheck ==
    /\ pc[Driver] = "sock_check"
    /\ IF socket_fd >= 0
       THEN Goto(Driver, "select")
       ELSE Goto(Driver, "hb_check")
    /\ UNCHANGED <<session, config, cmdq, evq, cmdhist, evhist, locals, ids, stats>>
    /\ UNCHANGED <<identity, inbound>>
    /\ UNCHANGED <<queue_mutexes, cur_event, params_puts, timer, attempts>>

\* select() on socket_fd with a timeout of one second: the socket is
\* readable, or the call times out or fails
Select ==
    /\ pc[Driver] = "select"
    /\ \/ Goto(Driver, "recv")
       \/ Goto(Driver, "hb_check")
    /\ UNCHANGED <<session, config, cmdq, evq, cmdhist, evhist, locals, ids, stats>>
    /\ UNCHANGED <<identity, inbound>>
    /\ UNCHANGED <<queue_mutexes, cur_event, params_puts, timer, attempts>>

\* recv() on socket_fd: whole lines; or the bytes up to the middle of a line;
\* or, after that, the rest of the line and its terminator; or end of stream
\* or a hard error, which is logged before i3_disconnect; or EAGAIN.  The
\* buffer is filled from its start by every call.
Recv ==
    /\ pc[Driver] = "recv"
    /\ \/ /\ socket_fd >= 0 /\ IsOpen(socket_fd)
          /\ rx_split = <<>>
          /\ \E lines \in RxBatches :
                /\ events_created + EventsIn(lines) <= env.events
                /\ rx_lines' = lines
                /\ stream' = RecordAll(stream, lines)
          /\ Goto(Driver, "handle")
          /\ UNCHANGED <<ret, err_ret, rx_split>>
       \/ /\ socket_fd >= 0 /\ IsOpen(socket_fd)
          /\ rx_split = <<>>
          /\ env.split
          /\ \E doc \in env.docs :
                /\ rx_lines' = <<HeadPart(doc)>>
                /\ rx_split' = <<doc>>
          /\ Goto(Driver, "handle")
          /\ UNCHANGED <<ret, err_ret, stream>>
       \/ /\ socket_fd >= 0 /\ IsOpen(socket_fd)
          /\ rx_split # <<>>
          /\ rx_lines' = <<TailPart(Head(rx_split))>>
          /\ stream' = Record(stream, Head(rx_split))
          /\ rx_split' = <<>>
          /\ Goto(Driver, "handle")
          /\ UNCHANGED <<ret, err_ret>>
       \/ /\ Proceed(Driver, <<"i3_error", "disc_chk">>)
          /\ ret' = "loop"
          /\ UNCHANGED <<rx_lines, rx_split, stream>>
       \/ /\ socket_fd >= 0 /\ IsOpen(socket_fd)
          /\ Goto(Driver, "hb_check")
          /\ UNCHANGED <<ret, rx_lines, err_ret, rx_split, stream>>
    /\ UNCHANGED <<session, config, cmdq, evq, cmdhist, evhist, cur_cmd, ids>>
    /\ UNCHANGED <<counts, err_tmp, identity, dispatched>>
    /\ UNCHANGED <<queue_mutexes, cur_event, params_puts, timer, attempts>>

\* where the driver goes once the line at the head of the buffer is handled
AfterLine == IF Len(rx_lines) > 1 THEN "handle" ELSE "hb_check"

\* i3_handle_message(line) for the next line strtok returns.
\* i3_parse_response reports a line that does not parse, counts one that
\* does and calls the handler of its path.  The step ends where the handler
\* calls i3_error or takes state_mutex, or inside i3_queue_event before its
\* unlock; for a response with an error member a second step, at
\* "error_event", builds and queues the Error event once i3_error has
\* returned.  The steps at "ev_unlock" and "ev_drop" leave i3_queue_event.
\* messages_received++ of a parse that handles only responses and
\* notifications
ReceivedAfterHandled(path) ==
    IF path \in {"response", "notification"}
    THEN Bump(messages_received, env.count.received)
    ELSE messages_received

\* messages_received after i3_parse_response of a line on the given path: one
\* more for every line json_tokener_parse accepts
ReceivedAfter(path) ==
    IF path # "bad"
    THEN Bump(messages_received, env.count.received)
    ELSE messages_received

HandleLine ==
    /\ pc[Driver] \in {"handle", "error_event", "ev_unlock", "ev_drop"}
    /\ LET line == Head(rx_lines)
           doc == Decode(line)
           path == HandleMessagePath(doc)
           event == events_created + 1
       IN IF pc[Driver] \in {"ev_unlock", "ev_drop"}
          THEN \* the end of i3_queue_event: the unlock and, when the queue
               \* was full, i3_free_event(event)
               /\ event_mutex' = IF pc[Driver] = "ev_unlock" THEN NoThread
                                 ELSE event_mutex
               /\ IF pc[Driver] = "ev_unlock" /\ events_created \in ev_dropped
                  THEN /\ Goto(Driver, "ev_drop")
                       /\ UNCHANGED rx_lines
                  ELSE /\ Goto(Driver, AfterLine)
                       /\ rx_lines' = Tail(rx_lines)
               /\ UNCHANGED <<evq, evhist, identity, err_ret, dispatched,
                              messages_received>>
          ELSE IF pc[Driver] = "error_event"
                  \/ (path = "notification" /\ EventOf(doc) # "none")
          THEN \* the event is built from the document; i3_queue_event locks
               \* event_mutex and appends it, or finds the queue full
               /\ \/ /\ event_mutex = NoThread
                     /\ event_mutex' = Driver
                     /\ \E v \in Unspecified :
                           ev_fields' = [ev_fields EXCEPT
                                           ![event] = EventFields(doc, v)]
                     /\ ev_type' = [ev_type EXCEPT ![event] = EventOf(doc)]
                     /\ events_created' = event
                     /\ QueueEvent(event)
                     /\ Goto(Driver, "ev_unlock")
                  \/ /\ CopiesNull(doc)
                     /\ Fault
                     /\ UNCHANGED <<evq, ev_accepted, ev_dropped, events_created,
                                    event_mutex>>
               /\ IF pc[Driver] = "error_event"
                  THEN UNCHANGED <<dispatched, messages_received>>
                  ELSE /\ dispatched' = Record(dispatched,
                                               [line |-> line, path |-> path])
                       /\ messages_received' = ReceivedAfter(path)
               /\ UNCHANGED <<ev_popped, identity, err_ret, rx_lines>>
          ELSE /\ dispatched' = Record(dispatched, [line |-> line, path |-> path])
               /\ messages_received' = ReceivedAfter(path)
               /\ IF path = "bad"
                  THEN /\ Proceed(Driver, <<"i3_error", AfterLine>>)
                       /\ rx_lines' = Tail(rx_lines)
                       /\ UNCHANGED identity
                  ELSE IF path = "response" /\ ResponseKind(doc) = "error"
                  THEN /\ Proceed(Driver, <<"i3_error", "error_event">>)
                       /\ UNCHANGED <<identity, rx_lines>>
                  ELSE IF path = "response" /\ ResponseKind(doc) = "auth"
                  THEN /\ \/ \E v \in Unspecified :
                                /\ mud_name' = StrCpy(mud_name, doc.mud_name, v)
                                /\ session_id' =
                                      StrCpy(session_id, doc.session_id, v)
                                /\ Goto(Driver, "resp_lock")
                          \/ /\ CopiesNull(doc)
                             /\ Fault
                             /\ UNCHANGED identity
                       /\ UNCHANGED <<rx_lines, err_ret>>
                  ELSE /\ rx_lines' = Tail(rx_lines)
                       /\ Goto(Driver, AfterLine)
                       /\ UNCHANGED <<identity, err_ret>>
               /\ UNCHANGED <<evq, evhist, event_mutex>>
    /\ UNCHANGED <<session, config, cmdq, cmdhist, ret, cur_cmd, ids>>
    /\ UNCHANGED <<messages_sent, errors, reconnects, err_tmp, rx_split, stream>>
    /\ UNCHANGED <<command_mutex, cur_event, params_puts, timer, attempts>>

\* i3_handle_response, authentication successful
RespLock ==
    /\ pc[Driver] = "resp_lock"
    /\ state_mutex = NoThread
    /\ state_mutex' = Driver
    /\ Goto(Driver, "resp_set")
    /\ UNCHANGED <<state, socket_fd, authenticated, client_alive, open_fds>>
    /\ UNCHANGED <<config, cmdq, evq, cmdhist, evhist, locals, ids, stats>>
    /\ UNCHANGED <<identity, inbound>>
    /\ UNCHANGED <<queue_mutexes, cur_event, params_puts, timer, attempts>>

RespSet ==
    /\ pc[Driver] = "resp_set"
    /\ state' = "Connected"
    /\ authenticated' = TRUE
    /\ state_mutex' = NoThread
    /\ rx_lines' = Tail(rx_lines)
    /\ Goto(Driver, AfterLine)
    /\ UNCHANGED <<socket_fd, client_alive, open_fds>>
    /\ UNCHANGED <<config, cmdq, evq, cmdhist, evhist, ret, cur_cmd, ids, stats>>
    /\ UNCHANGED <<identity, inbound>>
    /\ UNCHANGED <<queue_mutexes, cur_event, params_puts, timer, attempts>>

\* whether now - last_heartbeat >= I3_HEARTBEAT_INTERVAL when time(NULL)
\* returns n; in the runs that do not follow the clock (env.clock = 0) either
HbDue(n) ==
    IF env.clock = 0 THEN BOOLEAN
    ELSE {n - last_heartbeat >= HeartbeatInterval}

\* now = time(NULL), which has not gone back since the last call;
\* if (state == I3_STATE_CONNECTED && now - last_heartbeat >= interval)
HbCheck ==
    /\ pc[Driver] = "hb_check"
    /\ \E n \in now..env.clock :
          /\ now' = n
          /\ \E due \in HbDue(n) :
                IF state = "Connected" /\ due
                THEN Goto(Driver, ReqReadAt["hb"])
                ELSE Goto(Driver, "loop_check")
    /\ UNCHANGED <<session, config, cmdq, evq, cmdhist, evhist, locals, ids, stats>>
    /\ UNCHANGED <<identity, inbound>>
    /\ UNCHANGED <<queue_mutexes, cur_event, params_puts, last_heartbeat, attempts>>

\* i3_heartbeat: send the ping request; last_heartbeat = now
HbSend ==
    /\ pc[Driver] = "hb_send"
    /\ \E result \in SendResults : SendJson(result, <<"loop_check">>)
    /\ last_heartbeat' = now
    /\ UNCHANGED <<messages_received, errors, reconnects, err_tmp>>
    /\ UNCHANGED <<session, config, cmdq, evq, cmdhist, evhist, locals, ids>>
    /\ UNCHANGED <<identity, inbound>>
    /\ UNCHANGED <<queue_mutexes, cur_event, params_puts, now, attempts>>

DriverNext ==
    \/ ThreadStart
    \/ \E site \in RequestSites :
          CreateRequestRead(site) \/ CreateRequestWrite(site)
    \/ ErrorRead(Driver) \/ ErrorStore(Driver)
    \/ ConnectLock(Driver) \/ ConnectSet(Driver) \/ ConnectSock(Driver)
    \/ ConnectAssign(Driver)
    \/ ConnectChk(Driver) \/ ConnectFailLock(Driver) \/ ConnectFailSet(Driver)
    \/ AuthSend \/ AuthLock \/ AuthSet
    \/ LoopCheck \/ ReconnCheck \/ SleepReconnect
    \/ PopCmd \/ PopCmdUnlock \/ CmdSend \/ CmdFree
    \/ SockCheck \/ Select \/ Recv
    \/ HandleLine \/ RespLock \/ RespSet
    \/ HbCheck \/ HbSend
    \/ DiscChk(Driver) \/ DiscClose(Driver) \/ DiscClear(Driver)
    \/ DiscLock(Driver) \/ DiscSet(Driver) \/ DiscAuth(Driver)

(***************************************************************************)
(* The foreground thread.  At "idle" it is between two calls into the      *)
(* client.                                                                 *)
(***************************************************************************)
\* i3_send_tell with no test of enable_tell
SendTellNoToggle ==
    /\ pc[Fg] = "idle"
    /\ cmds_offered < env.cmds
    /\ id_tmp' = [id_tmp EXCEPT ![Fg] = next_request_id]
    /\ Goto(Fg, "tell_id")
    /\ UNCHANGED <<next_request_id, req_ids>>
    /\ UNCHANGED <<session, config, cmdq, evq, cmdhist, evhist, locals, stats>>
    /\ UNCHANGED <<identity, inbound>>
    /\ UNCHANGED <<queue_mutexes, cur_event, params_puts, timer, attempts>>

\* i3_send_tell (i3_client.c): the call fails when tells are disabled; else
\* the params and the command are built and next_request_id++ starts with its
\* read
SendTell ==
    /\ pc[Fg] = "idle"
    /\ cmds_offered < env.cmds
    /\ IF ~enable_tell
       THEN /\ Goto(Fg, "tell_fail")
            /\ UNCHANGED id_tmp
       ELSE /\ id_tmp' = [id_tmp EXCEPT ![Fg] = next_request_id]
            /\ Goto(Fg, "tell_id")
    /\ UNCHANGED <<next_request_id, req_ids>>
    /\ UNCHANGED <<session, config, cmdq, evq, cmdhist, evhist, locals, stats>>
    /\ UNCHANGED <<identity, inbound>>
    /\ UNCHANGED <<queue_mutexes, cur_event, params_puts, timer, attempts>>

\* i3_send_channel_message (i3_client.c)
SendChannelMessage ==
    /\ pc[Fg] = "idle"
    /\ cmds_offered < env.cmds
    /\ IF ~enable_channels
       THEN /\ Goto(Fg, "channel_fail")
            /\ UNCHANGED id_tmp
       ELSE /\ id_tmp' = [id_tmp EXCEPT ![Fg] = next_request_id]
            /\ Goto(Fg, "channel_id")
    /\ UNCHANGED <<next_request_id, req_ids>>
    /\ UNCHANGED <<session, config, cmdq, evq, cmdhist, evhist, locals, stats>>
    /\ UNCHANGED <<identity, inbound>>
    /\ UNCHANGED <<queue_mutexes, cur_event, params_puts, timer, attempts>>

\* return -1 of either submit call, its feature being disabled
SubmitFail ==
    /\ pc[Fg] \in {"tell_fail", "channel_fail"}
    /\ last_submit' = -1
    /\ Goto(Fg, "idle")
    /\ UNCHANGED <<cmd_accepted, cmd_popped, cmd_dropped, submit_ret, cmds_offered>>
    /\ UNCHANGED <<session, config, cmdq, evq, evhist, locals, ids, stats>>
    /\ UNCHANGED <<identity, inbound>>
    /\ UNCHANGED <<queue_mutexes, cur_event, params_puts, timer, attempts>>

\* cmd->id = next_request_id++ in either submit call: the write
SubmitId ==
    /\ pc[Fg] \in {"tell_id", "channel_id"}
    /\ next_request_id' = NextId(id_tmp[Fg])
    /\ id_tmp' = [id_tmp EXCEPT ![Fg] = 0]
    /\ Goto(Fg, "submit_queue")
    /\ UNCHANGED req_ids
    /\ UNCHANGED <<session, config, cmdq, evq, cmdhist, evhist, locals, stats>>
    /\ UNCHANGED <<identity, inbound>>
    /\ UNCHANGED <<queue_mutexes, cur_event, params_puts, timer, attempts>>

\* i3_queue_command(cmd); return 0, at the end of either submit call.  The
\* call returns 0 whatever i3_queue_command did, which submit_ret and
\* last_submit record with the critical section.
SubmitQueue ==
    /\ pc[Fg] \in {"submit_queue", "submit_unlock", "submit_drop"}
    /\ IF pc[Fg] = "submit_queue"
       THEN \* the lock and the critical section
            LET cmd == cmds_offered + 1
            IN /\ command_mutex = NoThread
               /\ command_mutex' = Fg
               /\ cmds_offered' = cmd
               /\ QueueCommand(cmd)
               /\ submit_ret' = [submit_ret EXCEPT ![cmd] = 0]
               /\ last_submit' = 0
               /\ Goto(Fg, "submit_unlock")
               /\ UNCHANGED <<cmd_popped, params_puts>>
       ELSE IF pc[Fg] = "submit_unlock"
       THEN \* the unlock
            /\ command_mutex' = NoThread
            /\ IF cmds_offered \in cmd_dropped
               THEN Goto(Fg, "submit_drop")
               ELSE Goto(Fg, "idle")
            /\ UNCHANGED <<cmdq, cmdhist, params_puts>>
       ELSE \* the queue was full: json_object_put(cmd->params); free(cmd)
            /\ params_puts' = [params_puts EXCEPT ![cmds_offered] = @ + 1]
            /\ Goto(Fg, "idle")
            /\ UNCHANGED <<cmdq, cmdhist, command_mutex>>
    /\ UNCHANGED <<session, config, evq, evhist, locals, ids, stats>>
    /\ UNCHANGED <<identity, inbound>>
    /\ UNCHANGED <<event_mutex, cur_event, timer, attempts>>

\* i3_process_events (i3_client.c): one turn of its loop, which pops and
\* frees events until i3_pop_event returns NULL; here the lock and the
\* critical section of i3_pop_event
ProcessEvents ==
    /\ pc[Fg] \in {"idle", "process_events"}
    /\ event_mutex = NoThread
    /\ event_mutex' = Fg
    /\ cur_event' = event_queue_head
    /\ PopEvent
    /\ Goto(Fg, "pop_event_unlock")
    /\ UNCHANGED <<ev_accepted, ev_dropped, events_created>>
    /\ UNCHANGED <<session, config, cmdq, cmdhist, locals, ids, stats>>
    /\ UNCHANGED <<identity, inbound>>
    /\ UNCHANGED <<command_mutex, params_puts, timer, attempts>>

\* the unlock at the end of i3_pop_event and the switch on event->type, which
\* calls i3_error for I3_MSG_ERROR; then i3_free_event(event)
ProcessEventsBody ==
    /\ pc[Fg] \in {"pop_event_unlock", "event_free"}
    /\ IF pc[Fg] = "pop_event_unlock"
       THEN /\ event_mutex' = NoThread
            /\ IF cur_event = NULL
               THEN /\ Goto(Fg, "idle")
                    /\ UNCHANGED err_ret
               ELSE IF ev_type[cur_event] = "Error"
               THEN Proceed(Fg, <<"i3_error", "event_free">>)
               ELSE /\ Goto(Fg, "event_free")
                    /\ UNCHANGED err_ret
            /\ UNCHANGED cur_event
       ELSE /\ cur_event' = NULL
            /\ Goto(Fg, "process_events")
            /\ UNCHANGED <<event_mutex, err_ret>>
    /\ UNCHANGED <<session, config, cmdq, evq, cmdhist, evhist, locals, ids>>
    /\ UNCHANGED <<counts, err_tmp, identity, inbound>>
    /\ UNCHANGED <<command_mutex, params_puts, timer, attempts>>

\* a player types an i3 command (i3_commands.c, do_i3)
DoI3Enter ==
    /\ pc[Fg] = "idle"
    /\ Goto(Fg, "do_i3")
    /\ UNCHANGED <<session, config, cmdq, evq, cmdhist, evhist, locals, ids, stats>>
    /\ UNCHANGED <<identity, inbound>>
    /\ UNCHANGED <<queue_mutexes, cur_event, params_puts, timer, attempts>>

\* do_i3: if (!i3_client || !i3_is_connected()) return; then the subcommand:
\* 'reconnect' calls i3_disconnect(), 'status' calls i3_get_state_string()
DoI3Check ==
    /\ pc[Fg] = "do_i3"
    /\ IF state = "Connected"
       THEN \/ Goto(Fg, "disc_chk")
            \/ Goto(Fg, "get_state")
            \/ Goto(Fg, "idle")
       ELSE Goto(Fg, "idle")
    /\ UNCHANGED <<session, config, cmdq, evq, cmdhist, evhist, locals, ids, stats>>
    /\ UNCHANGED <<identity, inbound>>
    /\ UNCHANGED <<queue_mutexes, cur_event, params_puts, timer, attempts>>

\* i3_get_state_string (i3_commands.c) reads i3_client->state
GetStateString ==
    /\ pc[Fg] = "get_state"
    /\ state \in States
    /\ Goto(Fg, "idle")
    /\ UNCHANGED <<session, config, cmdq, evq, cmdhist, evhist, locals, ids, stats>>
    /\ UNCHANGED <<identity, inbound>>
    /\ UNCHANGED <<queue_mutexes, cur_event, params_puts, timer, attempts>>

(***************************************************************************)
(* i3_shutdown (i3_client.c)                                               *)
(***************************************************************************)
ShutdownLock ==
    /\ pc[Fg] = "idle"
    /\ state_mutex = NoThread
    /\ state_mutex' = Fg
    /\ Goto(Fg, "shutdown_set")
    /\ UNCHANGED <<state, socket_fd, authenticated, client_alive, open_fds>>
    /\ UNCHANGED <<config, cmdq, evq, cmdhist, evhist, locals, ids, stats>>
    /\ UNCHANGED <<identity, inbound>>
    /\ UNCHANGED <<queue_mutexes, cur_event, params_puts, timer, attempts>>

ShutdownSet ==
    /\ pc[Fg] = "shutdown_set"
    /\ state' = "Shutdown"
    /\ state_mutex' = NoThread
    /\ Goto(Fg, "join")
    /\ UNCHANGED <<socket_fd, authenticated, client_alive, open_fds>>
    /\ UNCHANGED <<config, cmdq, evq, cmdhist, evhist, locals, ids, stats>>
    /\ UNCHANGED <<identity, inbound>>
    /\ UNCHANGED <<queue_mutexes, cur_event, params_puts, timer, attempts>>

\* an i3_shutdown that does not wait for the driver thread
JoinNoWait ==
    /\ pc[Fg] = "join"
    /\ Goto(Fg, "drain_cmds")
    /\ UNCHANGED <<session, config, cmdq, evq, cmdhist, evhist, locals, ids, stats>>
    /\ UNCHANGED <<identity, inbound>>
    /\ UNCHANGED <<queue_mutexes, cur_event, params_puts, timer, attempts>>

\* pthread_join(i3_client->thread_id, NULL)
Join ==
    /\ pc[Fg] = "join"
    /\ pc[Driver] = "done"
    /\ Goto(Fg, "drain_cmds")
    /\ UNCHANGED <<session, config, cmdq, evq, cmdhist, evhist, locals, ids, stats>>
    /\ UNCHANGED <<identity, inbound>>
    /\ UNCHANGED <<queue_mutexes, cur_event, params_puts, timer, attempts>>

\* while (command_queue_head) { cmd = i3_pop_command();
\* i3_free_command(cmd); }: the test with the lock and the critical section,
\* the unlock, the free
DrainCmds ==
    /\ pc[Fg] \in {"drain_cmds", "drain_cmds_unlock", "drain_cmds_free"}
    /\ IF pc[Fg] = "drain_cmds"
       THEN IF command_queue_head = NULL
            THEN /\ Goto(Fg, "drain_events")
                 /\ UNCHANGED <<cmdq, cmd_popped, command_mutex, params_puts>>
            ELSE /\ command_mutex = NoThread
                 /\ command_mutex' = Fg
                 /\ PopCommand
                 /\ Goto(Fg, "drain_cmds_unlock")
                 /\ UNCHANGED params_puts
       ELSE IF pc[Fg] = "drain_cmds_unlock"
       THEN /\ command_mutex' = NoThread
            /\ Goto(Fg, "drain_cmds_free")
            /\ UNCHANGED <<cmdq, cmd_popped, params_puts>>
       ELSE \* i3_free_command(cmd)
            /\ params_puts' =
                  [params_puts EXCEPT ![cmd_popped[Len(cmd_popped)]] = @ + 1]
            /\ Goto(Fg, "drain_cmds")
            /\ UNCHANGED <<cmdq, cmd_popped, command_mutex>>
    /\ UNCHANGED <<cmd_accepted, cmd_dropped, submit_ret, last_submit, cmds_offered>>
    /\ UNCHANGED <<session, config, evq, evhist, locals, ids, stats>>
    /\ UNCHANGED <<identity, inbound>>
    /\ UNCHANGED <<event_mutex, cur_event, timer, attempts>>

\* while (event_queue_head) { event = i3_pop_event();
\* i3_free_event(event); }
DrainEvents ==
    /\ pc[Fg] \in {"drain_events", "drain_events_unlock", "drain_events_free"}
    /\ IF pc[Fg] = "drain_events"
       THEN IF event_queue_head = NULL
            THEN /\ Goto(Fg, "destroy")
                 /\ UNCHANGED <<evq, ev_popped, event_mutex, cur_event>>
            ELSE /\ event_mutex = NoThread
                 /\ event_mutex' = Fg
                 /\ cur_event' = event_queue_head
                 /\ PopEvent
                 /\ Goto(Fg, "drain_events_unlock")
       ELSE IF pc[Fg] = "drain_events_unlock"
       THEN /\ event_mutex' = NoThread
            /\ Goto(Fg, "drain_events_free")
            /\ UNCHANGED <<evq, ev_popped, cur_event>>
       ELSE \* i3_free_event(event)
            /\ cur_event' = NULL
            /\ Goto(Fg, "drain_events")
            /\ UNCHANGED <<evq, ev_popped, event_mutex>>
    /\ UNCHANGED <<ev_accepted, ev_dropped, events_created>>
    /\ UNCHANGED <<session, config, cmdq, cmdhist, locals, ids, stats>>
    /\ UNCHANGED <<identity, inbound>>
    /\ UNCHANGED <<command_mutex, params_puts, timer, attempts>>

\* the MUD list is freed, the mutexes destroyed, i3_client freed and set NULL
Destroy ==
    /\ pc[Fg] = "destroy"
    /\ client_alive' = FALSE
    /\ Goto(Fg, "freed")
    /\ UNCHANGED <<state, socket_fd, authenticated, state_mutex, open_fds>>
    /\ UNCHANGED <<config, cmdq, evq, cmdhist, evhist, locals, ids, stats>>
    /\ UNCHANGED <<identity, inbound>>
    /\ UNCHANGED <<queue_mutexes, cur_event, params_puts, timer, attempts>>

\* the positions at which the next step of a thread reads or writes
\* i3_client->state or i3_client->authenticated
StateAccessLabels ==
    {"connect_set", "connect_fail_set", "disc_set", "disc_auth", "auth_set",
     "resp_set", "shutdown_set", "loop_check", "reconn_check", "hb_check",
     "do_i3", "get_state"}

FgNext ==
    \/ SendTell \/ SendChannelMessage \/ SubmitId \/ SubmitQueue
    \/ ProcessEvents \/ ProcessEventsBody \/ ErrorRead(Fg) \/ ErrorStore(Fg)
    \/ DoI3Enter \/ DoI3Check \/ GetStateString
    \/ DiscChk(Fg) \/ DiscClose(Fg) \/ DiscClear(Fg)
    \/ DiscLock(Fg) \/ DiscSet(Fg) \/ DiscAuth(Fg)
    \/ ConnectLock(Fg) \/ ConnectSet(Fg) \/ ConnectSock(Fg)
    \/ ConnectAssign(Fg)
    \/ ConnectChk(Fg) \/ ConnectFailLock(Fg) \/ ConnectFailSet(Fg)
    \/ ShutdownLock \/ ShutdownSet \/ Join
    \/ DrainCmds \/ DrainEvents \/ Destroy

Next == DriverNext \/ FgNext

Spec == Init /\ [][Next]_vars

\* the driver thread is always scheduled again, and so is the foreground thread
FairSpec == Spec /\ WF_vars(DriverNext) /\ WF_vars(FgNext)

\* the runs that exercise the queues: no player types an i3 command
FgNextQ ==
    \/ SendTell \/ SendChannelMessage \/ SubmitId \/ SubmitQueue
    \/ ProcessEvents \/ ProcessEventsBody
    \/ ShutdownLock \/ ShutdownSet \/ Join
    \/ DrainCmds \/ DrainEvents \/ Destroy

NextQ == DriverNext \/ FgNextQ

SpecQ == InitQ /\ [][NextQ]_vars

\* the runs that follow next_request_id
SpecId == InitId /\ [][Next]_vars

\* the runs that exercise the dispatcher: the foreground thread submits
\* commands and drains the event queue
FgNextD ==
    \/ SendTell \/ SendChannelMessage \/ SubmitId \/ SubmitQueue
    \/ ProcessEvents \/ ProcessEventsBody \/ ErrorRead(Fg) \/ ErrorStore(Fg)

NextD == DriverNext \/ FgNextD

SpecD == InitD /\ [][NextD]_vars

\* the runs that follow the path of each line
FgNextP ==
    \/ SendTell \/ SendChannelMessage \/ SubmitId \/ SubmitQueue
    \/ ProcessEvents \/ ProcessEventsBody

NextP == DriverNext \/ FgNextP

SpecP == InitP /\ [][NextP]_vars

\* the runs that follow the framing of the stream
SpecF == InitF /\ [][NextP]_vars

\* the runs that follow the count of received messages
SpecR == InitR /\ [][NextP]_vars

\* the runs that follow the heartbeat timer
SpecH == InitH /\ [][NextQ]_vars

\* the runs that follow the automatic reconnect
SpecA == InitA /\ [][Next]_vars

\* the same, with the driver thread and the foreground thread always scheduled
\* again
FairSpecA == SpecA /\ WF_vars(DriverNext) /\ WF_vars(FgNext)

\* the runs that follow the feature toggles
FgNextC ==
    \/ SendTell \/ SendChannelMessage \/ SubmitId \/ SubmitQueue \/ SubmitFail
    \/ ProcessEvents \/ ProcessEventsBody

NextC == DriverNext \/ FgNextC

SpecC == InitC /\ [][NextC]_vars

(***************************************************************************)
(* What the queues hold, read off the linked lists.                        *)
(***************************************************************************)
RECURSIVE Walk(_, _, _)
Walk(next, node, fuel) ==
    IF node = NULL \/ fuel = 0
    THEN <<>>
    ELSE <<node>> \o Walk(next, next[node], fuel - 1)

CommandQueueSeq == Walk(cmd_next, command_queue_head, Cardinality(CmdIds))
EventQueueSeq == Walk(ev_next, event_queue_head, Cardinality(EventIds))

IsPrefix(s, t) == Len(s) <= Len(t) /\ \A i \in 1..Len(s) : s[i] = t[i]
NoRepeat(s) == \A i, j \in 1..Len(s) : s[i] = s[j] => i = j

(***************************************************************************)
(* C1: in every reachable state command_queue_size and event_queue_size    *)
(* are both between 0 and max_queue_size, whatever the interleaving of the *)
(* foreground enqueues, the dispatcher's enqueues and the dequeues.        *)
(***************************************************************************)
C1_QueueSizesBounded ==
    /\ command_queue_size \in 0..MaxQueueSize
    /\ event_queue_size \in 0..MaxQueueSize

\* both queues are full and each has turned an item away
C1_Witness ==
    /\ command_queue_size = MaxQueueSize
    /\ cmd_dropped # {}
    /\ event_queue_size = MaxQueueSize
    /\ ev_dropped # {}

(***************************************************************************)
(* C2: every enqueue rejected by a full queue is recorded: for each queue  *)
(* the items offered equal the items accepted plus the drops reported to   *)
(* the caller or counted, and a submit call whose command was dropped does *)
(* not return success.  (i3_queue_command and i3_queue_event return        *)
(* nothing and count nothing, so the only report there could be is the     *)
(* return value of the submit call.)                                       *)
(***************************************************************************)
CmdDropsReported == Cardinality({c \in 1..cmds_offered : submit_ret[c] # 0})

C2_DropsReported ==
    /\ \A c \in cmd_dropped : submit_ret[c] # 0
    /\ cmds_offered = Len(cmd_accepted) + CmdDropsReported
    /\ events_created = Len(ev_accepted)

(***************************************************************************)
(* C3: both queues are FIFO with exactly-once hand-off: the items returned *)
(* by the dequeues are a prefix of the items accepted by the enqueues, in  *)
(* the same order, none returned twice, and every accepted item that was   *)
(* not returned yet is still on the queue, in order.                       *)
(***************************************************************************)
C3_FifoExactlyOnce ==
    /\ IsPrefix(cmd_popped, cmd_accepted)
    /\ NoRepeat(cmd_popped)
    /\ cmd_accepted = cmd_popped \o CommandQueueSeq
    /\ IsPrefix(ev_popped, ev_accepted)
    /\ NoRepeat(ev_popped)
    /\ ev_accepted = ev_popped \o EventQueueSeq

\* each queue has handed over two items and holds a later one
C3_Witness ==
    /\ Len(cmd_popped) >= 2
    /\ Len(cmd_accepted) > Len(cmd_popped)
    /\ Len(ev_popped) >= 2
    /\ Len(ev_accepted) > Len(ev_popped)

(***************************************************************************)
(* C4: every change of the session state follows the transition table:     *)
(* Disconnected to Connecting, Reconnecting or Shutdown; Connecting to     *)
(* Authenticating, Disconnected or Shutdown; Authenticating to Connected,  *)
(* Disconnected or Shutdown; Connected to Disconnected or Shutdown.        *)
(***************************************************************************)
TransitionTable ==
    {<<"Disconnected", "Connecting">>, <<"Disconnected", "Reconnecting">>,
     <<"Disconnected", "Shutdown">>,
     <<"Reconnecting", "Connecting">>, <<"Reconnecting", "Shutdown">>,
     <<"Connecting", "Authenticating">>, <<"Connecting", "Disconnected">>,
     <<"Connecting", "Shutdown">>,
     <<"Authenticating", "Connected">>, <<"Authenticating", "Disconnected">>,
     <<"Authenticating", "Shutdown">>,
     <<"Connected", "Disconnected">>, <<"Connected", "Shutdown">>}

C4_TransitionsFollowTable ==
    [][state' # state => <<state, state'>> \in TransitionTable]_vars

(***************************************************************************)
(* C5: Shutdown is terminal: once state is Shutdown it never takes another *)
(* value.                                                                  *)
(***************************************************************************)
C5_ShutdownTerminal ==
    [][state = "Shutdown" => state' = "Shutdown"]_vars

(***************************************************************************)
(* C6: shutdown completes: once i3_shutdown has set the Shutdown state and *)
(* waits in pthread_join, the driver thread eventually terminates.         *)
(***************************************************************************)
C6_ShutdownCompletes ==
    (pc[Fg] = "join") ~> (pc[Driver] = "done")

(***************************************************************************)
(* C7: in every reachable state authenticated is true only if state is     *)
(* Connected.                                                              *)
(***************************************************************************)
C7_AuthenticatedOnlyConnected ==
    authenticated => state = "Connected"

(***************************************************************************)
(* C8: in every reachable state socket_fd >= 0 only if state is            *)
(* Connecting, Authenticating or Connected.                                *)
(***************************************************************************)
C8_SocketOnlyWhileConnecting ==
    socket_fd >= 0 => state \in {"Connecting", "Authenticating", "Connected"}

(***************************************************************************)
(* C9: at most one socket of the session is open at any time: socket_fd is *)
(* never overwritten while it names an open descriptor, and no descriptor  *)
(* is closed twice.                                                        *)
(***************************************************************************)
C9_OneLiveSocket ==
    /\ Cardinality(open_fds) <= 1
    /\ \A t \in Threads :
          /\ pc[t] = "connect_sock" => ~IsOpen(socket_fd)
          /\ pc[t] = "disc_close" /\ socket_fd >= 0 => IsOpen(socket_fd)

(***************************************************************************)
(* C10: every read and write of state and authenticated is made by a       *)
(* thread that holds state_mutex.                                          *)
(***************************************************************************)
C10_AccessesHoldMutex ==
    \A t \in Threads : pc[t] \in StateAccessLabels => state_mutex = t

(***************************************************************************)
(* C11: the ids of the outbound requests are unique and strictly           *)
(* increasing in the order i3_create_request built them, and               *)
(* next_request_id never decreases, whatever the interleaving of the       *)
(* driver thread with the submit calls of the foreground thread.           *)
(***************************************************************************)
StrictlyIncreasing(s) == \A i, j \in 1..Len(s) : i < j => s[i] < s[j]

C11_RequestIdsUnique ==
    [][/\ next_request_id' >= next_request_id
       /\ StrictlyIncreasing(req_ids')]_vars

(***************************************************************************)
(* C12: a command submitted in any state of the session is placed on the   *)
(* command queue when it has room, and the driver takes a command off the  *)
(* queue, to send it or to discard it, only while state is Connected:      *)
(* never while state is Disconnected, Connecting or Authenticating.        *)
(***************************************************************************)
C12_SentOnlyWhileConnected ==
    [][/\ (pc[Fg] = "submit_queue" /\ pc'[Fg] = "submit_unlock"
            /\ command_queue_size < MaxQueueSize)
          => cmd_accepted' = Append(cmd_accepted, cmds_offered + 1)
       /\ (pc[Driver] = "pop_cmd" /\ cmd_popped' # cmd_popped)
          => state \notin {"Disconnected", "Connecting", "Authenticating"}]_vars

(***************************************************************************)
(* The dispatcher.                                                         *)
(***************************************************************************)
\* the line the driver is handling
CurrentDoc == Decode(Head(rx_lines))

\* a response without an error member whose result.status is "authenticated"
IsAuthResponse(doc) ==
    /\ doc.valid /\ doc.id /\ ~doc.error
    /\ doc.result /\ doc.status = "authenticated"

\* a response without an error member whose result.status is something else
IsOtherStatusResponse(doc) ==
    /\ doc.valid /\ doc.id /\ ~doc.error
    /\ doc.result /\ doc.status \notin {"authenticated", Absent}

\* C13: a response with no error member and result.status "authenticated",
\* handled while state is Authenticating, takes the handler to the
\* transition, which leaves state Connected, authenticated true and mud_name
\* and session_id equal to the members of the result; a response with another
\* status changes neither state nor authenticated.
C13_AuthResponseSetsSession ==
    [][/\ (pc[Driver] = "handle" /\ pc'[Driver] # "handle"
              /\ IsAuthResponse(CurrentDoc) /\ state = "Authenticating")
          => pc'[Driver] = "resp_lock"
       /\ (pc[Driver] = "resp_set" /\ pc'[Driver] # "resp_set"
              /\ state = "Authenticating")
          => /\ state' = "Connected"
             /\ authenticated'
             /\ CurrentDoc.mud_name # Absent => mud_name' = CurrentDoc.mud_name
             /\ CurrentDoc.session_id # Absent
                   => session_id' = CurrentDoc.session_id
       /\ (pc[Driver] = "handle" /\ pc'[Driver] # "handle"
              /\ IsOtherStatusResponse(CurrentDoc))
          => /\ UNCHANGED <<state, authenticated>>
             /\ pc'[Driver] # "resp_lock"]_vars

\* the lines recorded as handed to the dispatcher, decoded, with their paths
Dispatches ==
    {[doc |-> Decode(dispatched[i].line), path |-> dispatched[i].path] :
        i \in 1..Len(dispatched)}

\* C14: a line that decodes takes the response path exactly when the document
\* has an id member and the notification path exactly when it has a method
\* member and no id member; a document with neither member takes neither.
C14_PathByIdAndMethod ==
    \A d \in Dispatches :
        d.doc.valid =>
            /\ d.path = "response" <=> d.doc.id
            /\ d.path = "notification" <=> (d.doc.method # "" /\ ~d.doc.id)
            /\ (~d.doc.id /\ d.doc.method = "") => d.path = "neither"

\* a document with an id and a method has gone down the response path, one
\* with a method only down the notification path
C14_Witness ==
    /\ [doc |-> DocIdMethod, path |-> "response"] \in Dispatches
    /\ [doc |-> DocUnknown, path |-> "notification"] \in Dispatches

\* the driver takes the step that handles the line at the head of its buffer
DriverHandles == pc[Driver] = "handle" /\ pc'[Driver] # "handle"

\* what a member of params carries into the field of a zeroed event
Carried(member) == IF member = Absent THEN "" ELSE member

\* the event built in this step is of the given type, holds the members
\* named of the current document's params, and is appended to the event
\* queue unless the queue is full
BuildsEvent(type, names) ==
    LET event == events_created + 1
    IN /\ events_created' = event
       /\ ev_type'[event] = type
       /\ \A name \in names :
             ev_fields'[event][name] = Carried(CurrentDoc.fields[name])
       /\ event_queue_size < MaxQueueSize
             => /\ ev_accepted' = Append(ev_accepted, event)
                /\ event_queue_size' = event_queue_size + 1
       /\ event_queue_size >= MaxQueueSize => UNCHANGED ev_accepted

\* C15: a tell_received notification with params builds exactly one Tell
\* event holding the from_mud, from_user, to_user and message of the params
\* and appends it once when the event queue is not full; a channel_message
\* notification does the same with a Channel event; a notification with
\* another method builds no event, changes no state and does not call
\* i3_error.
C15_NotificationEvents ==
    [][DriverHandles /\ CurrentDoc.valid /\ ~CurrentDoc.id
          => /\ (CurrentDoc.method = "tell_received" /\ CurrentDoc.params)
                => BuildsEvent("Tell",
                               {"from_mud", "from_user", "to_user", "message"})
             /\ (CurrentDoc.method = "channel_message" /\ CurrentDoc.params)
                => BuildsEvent("Channel",
                               {"channel", "from_mud", "from_user", "message"})
             /\ CurrentDoc.method \notin {"", "tell_received", "channel_message"}
                => /\ UNCHANGED <<evq, evhist, state, authenticated, socket_fd,
                                  errors>>
                   /\ pc'[Driver] # "i3_error"]_vars

\* a response with an error member
IsErrorResponse(doc) == doc.valid /\ doc.id /\ doc.error

\* C16: a response with an error member is reported and builds exactly one
\* Error event holding the message of the error member, appended when the
\* event queue is not full; its result member is not looked at, and state,
\* authenticated, the socket and the recorded names stay as they are.
C16_ErrorResponseEvent ==
    [][/\ (DriverHandles /\ IsErrorResponse(CurrentDoc))
          => /\ pc'[Driver] = "i3_error"
             /\ err_ret'[Driver] = <<"error_event">>
             /\ UNCHANGED <<state, authenticated, socket_fd, open_fds, identity,
                            evq, evhist>>
       /\ (pc[Driver] = "error_event" /\ pc'[Driver] # "error_event")
          => LET event == events_created + 1
             IN /\ events_created' = event
                /\ ev_type'[event] = "Error"
                /\ ev_fields'[event].message =
                      (IF CurrentDoc.message = Absent THEN "Unknown error"
                       ELSE CurrentDoc.message)
                /\ event_queue_size < MaxQueueSize
                      => ev_accepted' = Append(ev_accepted, event)
                /\ pc'[Driver] = "ev_unlock"
                /\ UNCHANGED <<state, authenticated, socket_fd, open_fds,
                               identity>>]_vars

\* the driver's step on a line that does not parse: the line is dropped and
\* reported, no event is built, messages_received, state, authenticated and
\* the socket stay as they are, and the driver comes back to the lines that
\* follow
BadLineDiscarded ==
    (DriverHandles /\ ~CurrentDoc.valid)
       => /\ pc'[Driver] = "i3_error"
          /\ err_ret'[Driver] = <<AfterLine>>
          /\ rx_lines' = Tail(rx_lines)
          /\ UNCHANGED <<evq, evhist, messages_received, state, authenticated,
                         socket_fd, open_fds>>

\* the report of such a line raises the error count by one; the call is the
\* one that returns into the loop over the lines
BadLineCounted ==
    (/\ pc[Driver] = "i3_error_store" /\ pc'[Driver] # "i3_error_store"
     /\ err_ret[Driver] \in {<<"handle">>, <<"hb_check">>}
     /\ errors < env.count.errors)
       => /\ errors' = errors + 1
          /\ pc'[Driver] = Head(err_ret[Driver])

\* C17: a line that is not valid JSON is dropped as a recoverable error: the
\* error count goes up by one, no event is queued, messages_received is not
\* incremented, state and the socket are unchanged, and the lines after it
\* are still handled.
C17_BadLineRecoverable ==
    [][BadLineDiscarded /\ BadLineCounted]_vars

(***************************************************************************)
(* Framing.                                                                *)
(***************************************************************************)
\* the lines handed to the dispatcher so far, in order
Handed == [i \in 1..Len(dispatched) |-> dispatched[i].line]

\* the newline-terminated lines of the stream so far, each as one whole line
Terminated == [i \in 1..Len(stream) |-> Whole(stream[i])]

\* C18: however recv() cuts the stream, the lines handed to the dispatcher
\* are the newline-terminated lines of the stream, whole and in arrival
\* order: at any moment those handed so far are the first of those that have
\* arrived.
C18_FramingIndependent == IsPrefix(Handed, Terminated)

(***************************************************************************)
(* Transport failures.                                                     *)
(***************************************************************************)
\* the session after a transport failure, as the step leaves it
LeftDisconnected ==
    state' = "Disconnected" /\ socket_fd' = NoFd /\ ~authenticated'

\* C19: after a transport failure the driver does not start its next
\* iteration before state is Disconnected, the socket is closed and
\* authenticated is false: neither from the report of a failed send of the
\* authenticate or the heartbeat request, nor from a failed i3_connect, nor
\* from the i3_disconnect that follows a lost connection.
C19_FailureDisconnects ==
    [][/\ (pc[Driver] = "i3_error_store" /\ pc'[Driver] = "loop_check")
          => LeftDisconnected
       /\ (pc[Driver] = "connect_fail_set" /\ pc'[Driver] = "loop_check")
          => LeftDisconnected
       /\ (pc[Driver] = "disc_auth" /\ ret = "loop" /\ pc'[Driver] = "hb_check")
          => LeftDisconnected]_vars

(***************************************************************************)
(* Feature toggles.                                                        *)
(***************************************************************************)
\* the foreground thread enters i3_send_tell
CallsSendTell ==
    pc[Fg] = "idle" /\ pc'[Fg] \in {"tell_id", "tell_fail"}

\* the foreground thread enters i3_send_channel_message
CallsSendChannelMessage ==
    pc[Fg] = "idle" /\ pc'[Fg] \in {"channel_id", "channel_fail"}

\* the step does nothing to the command queue or to next_request_id
QueueAndIdUntouched ==
    UNCHANGED <<cmdq, cmd_accepted, cmd_dropped, cmds_offered, next_request_id>>

\* C20: i3_send_tell called with enable_tell off, and
\* i3_send_channel_message called with enable_channels off, return failure
\* and leave the command queue, its size and next_request_id as they were
\* (a call the process does not live to return from returns nothing).
C20_DisabledSubmitFails ==
    [][/\ (CallsSendTell /\ ~enable_tell)
          => pc'[Fg] = "tell_fail" /\ QueueAndIdUntouched
       /\ (CallsSendChannelMessage /\ ~enable_channels)
          => pc'[Fg] = "channel_fail" /\ QueueAndIdUntouched
       /\ (pc[Fg] \in {"tell_fail", "channel_fail"} /\ pc'[Fg] # pc[Fg]
              /\ pc'[Fg] # "fault")
          => /\ pc'[Fg] = "idle"
             /\ last_submit' = -1
             /\ QueueAndIdUntouched]_vars

\* with tells disabled and channels enabled, a tell was refused after a
\* channel message had been queued and had moved next_request_id
C20_Witness ==
    /\ ~enable_tell /\ enable_channels
    /\ last_submit = -1
    /\ cmd_accepted # <<>>
    /\ next_request_id > 1

(***************************************************************************)
(* Automatic reconnection.                                                 *)
(***************************************************************************)
\* i3_shutdown has been called
ShutdownRequested ==
    pc[Fg] \in {"shutdown_set", "join", "drain_cmds", "drain_cmds_unlock",
                "drain_cmds_free", "drain_events", "drain_events_unlock",
                "drain_events_free", "destroy", "freed"}

\* the driver is in i3_connect and has not called i3_socket_connect yet
DriverEntersConnect ==
    pc[Driver] \in {"thread_start", "connect_lock", "connect_set", "connect_sock"}

\* the reconnect counter is the number of connection attempts the driver has
\* made beyond the first, as long as the counter is followed
ReconnectsCounted ==
    reconnects < env.count.reconnects
       => attempts = reconnects + (IF DriverEntersConnect THEN 0 ELSE 1)

\* with auto-reconnect off the driver makes the initial attempt only
NoAttemptWhenDisabled ==
    ~auto_reconnect => attempts <= 1 /\ reconnects = 0

\* from a Disconnected session with auto-reconnect on, the driver comes to a
\* new connection attempt, unless i3_shutdown is called or the process is
\* ended by a fault first
ReconnectsEventually ==
    (state = "Disconnected" /\ auto_reconnect /\ ~ShutdownRequested)
       ~> (pc[Driver] = "connect_sock" \/ ShutdownRequested
              \/ pc[Driver] = "fault")

\* the same, counting an attempt of either thread
SomeThreadReconnectsEventually ==
    (state = "Disconnected" /\ auto_reconnect /\ ~ShutdownRequested)
       ~> ((\E t \in Threads : pc[t] = "connect_sock") \/ ShutdownRequested
              \/ pc[Driver] = "fault")

\* C21: whenever the session is Disconnected with auto-reconnect on and no
\* shutdown requested, the driver eventually makes a new connection attempt;
\* the reconnect counter always equals the number of automatic attempts
\* made; with auto-reconnect off the driver makes no attempt after the
\* initial one.
C21_AutoReconnect ==
    /\ [](ReconnectsCounted /\ NoAttemptWhenDisabled)
    /\ ReconnectsEventually

(***************************************************************************)
(* Authentication after a connect.                                         *)
(***************************************************************************)
\* thread t returns from i3_connect with the socket connected
ConnectSucceeds(t) ==
    /\ pc[t] = "connect_chk"
    /\ socket_fd >= 0
    /\ pc'[t] \notin {"connect_chk", "fault"}

\* C22: every successful connect, by the driver at its start or on an
\* automatic reconnect, or by the foreground thread for 'i3 reconnect', is
\* immediately followed by the authenticate request: the thread that
\* connected goes on into i3_authenticate and sends nothing else first.
C22_ConnectThenAuthenticate ==
    [][\A t \in Threads : ConnectSucceeds(t) => pc'[t] = ReqReadAt["auth"]]_vars

(***************************************************************************)
(* Ownership of a command's payload.                                       *)
(***************************************************************************)
\* the commands that have been released: sent and freed by the driver,
\* rejected by the full queue, or drained by i3_shutdown
CommandsReleased == {c \in CmdIds : params_puts[c] > 0}

\* C24: the params payload of every command is released exactly once: no
\* command's payload is the target of more than one json_object_put, whether
\* the command was dequeued and sent, rejected by the full queue or drained.
C24_ParamsReleasedOnce ==
    \A c \in CommandsReleased : params_puts[c] = 1

(***************************************************************************)
(* The socket of a Connected session.                                      *)
(***************************************************************************)
\* C29: whenever the state is Connected the client holds a socket
\* (socket_fd >= 0), whatever the foreground's disconnects and reconnects do
\* in between the driver's steps.
C29_ConnectedHasSocket ==
    state = "Connected" => socket_fd >= 0

(***************************************************************************)
(* Shape of the two linked lists.                                          *)
(***************************************************************************)
\* head, tail and size describe the list q read from head through next
ListConsistent(head, tail, size, next, q) ==
    /\ size = Len(q)
    /\ (head = NULL) <=> (size = 0)
    /\ (tail = NULL) <=> (size = 0)
    /\ size > 0 => tail = q[Len(q)] /\ next[tail] = NULL

\* C30: whenever a queue's mutex is not held, its size equals the number of
\* nodes reachable from head, head is null exactly when tail is null and
\* exactly when size is 0, and tail is the last reachable node, whose next
\* is null.
C30_ListsConsistent ==
    /\ command_mutex = NoThread
          => ListConsistent(command_queue_head, command_queue_tail,
                            command_queue_size, cmd_next, CommandQueueSeq)
    /\ event_mutex = NoThread
          => ListConsistent(event_queue_head, event_queue_tail,
                            event_queue_size, ev_next, EventQueueSeq)

\* no mutex is held; the command queue was emptied by its dequeues and the
\* event queue still links two events behind one that was dequeued
C30_Witness ==
    /\ command_mutex = NoThread
    /\ event_mutex = NoThread
    /\ Len(cmd_popped) >= 2
    /\ command_queue_size = 0
    /\ Len(ev_popped) >= 1
    /\ event_queue_size >= 2

(***************************************************************************)
(* Reclamation in i3_shutdown.                                             *)
(***************************************************************************)
\* i3_shutdown is past pthread_join: it drains the queues, destroys the
\* mutexes and frees the client, or has done so
Reclaiming ==
    pc[Fg] \in {"drain_cmds", "drain_cmds_unlock", "drain_cmds_free",
                "drain_events", "drain_events_unlock", "drain_events_free",
                "destroy", "freed"}

\* the commands i3_shutdown took off the queue and freed
CommandsDrained ==
    {c \in CmdIds : params_puts[c] = 1 /\ \E i \in 1..Len(cmd_popped) : cmd_popped[i] = c}

\* C23: i3_shutdown reclaims the shared structures only after the driver
\* thread has terminated, the driver touches none of them once the freeing
\* has begun, and both queues are empty when i3_shutdown returns.
C23_ReclaimAfterDriver ==
    /\ Reclaiming => pc[Driver] = "done"
    /\ ~client_alive => pc[Driver] = "done" /\ pc[Fg] = "freed"
    /\ pc[Fg] = "freed"
          => /\ ~client_alive
             /\ command_queue_head = NULL /\ command_queue_size = 0
             /\ event_queue_head = NULL /\ event_queue_size = 0

\* i3_shutdown has returned after taking a command and an event off the
\* queues that the driver and the game loop had left there
C23_Witness ==
    /\ pc[Fg] = "freed"
    /\ CommandsDrained # {}
    /\ Len(ev_popped) > 0
    /\ Len(ev_accepted) = Len(ev_popped)
    /\ pc[Driver] = "done"

(***************************************************************************)
(* Lock discipline.                                                        *)
(***************************************************************************)
\* the mutexes thread t holds
MutexesHeld(t) ==
    {m \in {"state_mutex", "command_mutex", "event_mutex"} :
        [state_mutex |-> state_mutex, command_mutex |-> command_mutex,
         event_mutex |-> event_mutex][m] = t}

\* the positions at which a thread's next step is a call that blocks or goes
\* to the network: connect, send, select, recv, sleep, pthread_join
BlockingLabels ==
    {"connect_sock", "auth_send", "cmd_send", "hb_send", "select", "recv",
     "sleep", "join"}

\* the positions at which a thread's next step frees a command or an event
FreeingLabels ==
    {"cmd_free", "submit_drop", "ev_drop", "event_free", "drain_cmds_free",
     "drain_events_free"}

\* the next step of thread t
ThreadStep(t) == IF t = Driver THEN DriverNext ELSE FgNext

\* C27: no thread holds command_mutex, event_mutex or state_mutex when it
\* enters a network or blocking call or frees a queue item; no thread holds
\* two mutexes at once; and no thread that holds a mutex is ever blocked
\* while the process runs, so that no deadlock is reachable.
C27_LockDiscipline ==
    \A t \in Threads :
        /\ pc[t] \in BlockingLabels \cup FreeingLabels => MutexesHeld(t) = {}
        /\ Cardinality(MutexesHeld(t)) <= 1
        /\ MutexesHeld(t) # {} /\ pc[t] # "fault" => ENABLED ThreadStep(t)

\* the driver is about to send a command while the foreground thread holds
\* command_mutex in i3_queue_command
C27_Witness ==
    /\ pc[Driver] = "cmd_send"
    /\ pc[Fg] = "submit_unlock"
    /\ command_mutex = Fg
    /\ MutexesHeld(Driver) = {}

(***************************************************************************)
(* The count of received messages.                                         *)
(***************************************************************************)
\* the driver takes the step of i3_parse_response that parses the next line
ParsesLine ==
    /\ pc[Driver] = "handle"
    /\ pc'[Driver] # "handle" \/ rx_lines' # rx_lines

\* the next line is a JSON document: json_tokener_parse accepts it
LineDecodes == ParsePath(Decode(Head(rx_lines))) # "bad"

\* C26: messages_received is the number of lines received so far that
\* decoded as JSON: it goes up by one in the step that parses such a line,
\* on the response path, the notification path and the path of a document
\* with neither id nor method, and whether or not the event built from it is
\* dropped by the full queue, and it changes in no other step.
C26_ReceivedCountsDecoded ==
    [][messages_received < env.count.received
          => messages_received' = messages_received
                + (IF ParsesLine /\ LineDecodes THEN 1 ELSE 0)]_vars

\* one tell more than the event queue holds was received, each was counted,
\* and the event of the last was dropped by the full queue
C26_Witness ==
    /\ events_created = MaxQueueSize + 1
    /\ messages_received = MaxQueueSize + 1
    /\ event_queue_size = MaxQueueSize
    /\ ev_dropped # {}
    /\ pc[Driver] = "hb_check"

(***************************************************************************)
(* i3_disconnect as a function of the client it is called on.              *)
(***************************************************************************)
\* the fields i3_disconnect reads and writes, and the open descriptors
Client ==
    [state |-> state, socket_fd |-> socket_fd, authenticated |-> authenticated,
     open_fds |-> open_fds]

\* the client one uninterrupted call of i3_disconnect leaves
I3Disconnect(c) ==
    [state |-> StateAfterDisconnect(c.state),
     socket_fd |-> IF c.socket_fd >= 0 THEN NoFd ELSE c.socket_fd,
     authenticated |-> FALSE,
     open_fds |-> IF c.socket_fd >= 0 THEN c.open_fds \ {c.socket_fd}
                  ELSE c.open_fds]

\* the positions inside i3_disconnect
DisconnectLabels ==
    {"disc_chk", "disc_close", "disc_clear", "disc_lock", "disc_set", "disc_auth"}

\* a thread is entering i3_disconnect and no other call of it is under way
DisconnectCalled ==
    \E t \in Threads :
        /\ pc[t] = "disc_chk"
        /\ \A u \in Threads \ {t} : pc[u] \notin DisconnectLabels

\* a call on a Disconnected client with no socket changes nothing
DisconnectedUnchanged ==
    state = "Disconnected" /\ socket_fd < 0 => I3Disconnect(Client) = Client

\* a second call changes nothing the first has not changed
DisconnectIdempotent ==
    I3Disconnect(I3Disconnect(Client)) = I3Disconnect(Client)

\* in Shutdown the call closes the socket, clears authenticated and leaves the
\* state alone
ShutdownKept ==
    state = "Shutdown"
       => /\ I3Disconnect(Client).state = "Shutdown"
          /\ I3Disconnect(Client).socket_fd = NoFd
          /\ socket_fd \notin I3Disconnect(Client).open_fds
          /\ ~I3Disconnect(Client).authenticated

\* C28: i3_disconnect is idempotent: called on a client that is already
\* Disconnected with its socket closed it changes nothing, two consecutive
\* calls leave the client as one call does, and called in Shutdown it closes
\* the socket, clears the authenticated flag and leaves the state Shutdown.
C28_DisconnectIdempotent ==
    DisconnectCalled
       => DisconnectedUnchanged /\ DisconnectIdempotent /\ ShutdownKept

(***************************************************************************)
(* The heartbeat.                                                          *)
(***************************************************************************)
\* send() takes the ping request of i3_heartbeat
PingSent ==
    /\ pc[Driver] = "hb_send"
    /\ pc'[Driver] = "loop_check"
    /\ socket_fd >= 0

\* a ping is sent only when the interval has elapsed since the timer was
\* last reset, and sending it resets the timer
PingOnTime ==
    [][PingSent => /\ now - last_heartbeat >= HeartbeatInterval
                   /\ last_heartbeat' = now]_vars

\* a ping is sent only while the state is Connected
PingWhenConnected == [][PingSent => state = "Connected"]_vars

\* C25: the driver sends a heartbeat ping only in an iteration in which the
\* state is Connected and the interval has elapsed since the last heartbeat;
\* each send resets the timer, so that two consecutive pings are at least
\* one interval apart; no ping is sent while the state is not Connected.
C25_Heartbeat == PingOnTime /\ PingWhenConnected

====
